---- MODULE Spec2Model ----
(***************************************************************************)
(* A model of the core of the SoS workflow engine:                         *)
(*   - pysos/dag.py       : SoS_Node, SoS_DAG (edge inference, scheduling) *)
(*   - src/sos/controller.py : the signature controller's poll loop        *)
(*   - pysos/sos_script.py : SoS_Script_Parser, ExprStack, SoS_Workflow    *)
(***************************************************************************)
EXTENDS Integers, Sequences, FiniteSets, TLC

(***************************************************************************)
(* Bounds of the model.                                                    *)
(***************************************************************************)
\* number of add_step calls
MaxNodes == 2
\* number of add_step calls for the steps of one workflow
MaxChain == 3
\* targets are named 1..NumTargets
NumTargets == 1
\* step indexes are 0..MaxIndex, or None
MaxIndex == 2

Targets == 1..NumTargets

\* Python's None as a node index (real indexes are >= 0)
NoIndex == -1

Indexes == {NoIndex} \cup (0..MaxIndex)

(***************************************************************************)
(* A target set is either Undetermined or a collection of targets:         *)
(* [und |-> TRUE, set |-> {}] is an Undetermined() object,                 *)
(* [und |-> FALSE, set |-> S] is the list of the targets in S.             *)
(***************************************************************************)
Undetermined == [und |-> TRUE, set |-> {}]

Determined(S) == [und |-> FALSE, set |-> S]

TargetSets == {Undetermined} \cup {Determined(S) : S \in SUBSET Targets}

\* SoS_Node._status is "None" (Python's None: not yet run), "running",
\* "completed" or "failed"

VARIABLES
    nodes,                  \* SoS_DAG.nodes(): the nodes in insertion order
    edges,                  \* SoS_DAG edges: <<u, v>> is the edge u -> v (positions in nodes)
    all_dependent_files,    \* SoS_DAG._all_dependent_files: target -> list of node names
    all_output_files,       \* SoS_DAG._all_output_files: target -> list of node names
    ret,                    \* the call of SoS_DAG that has just returned, and its result
    ctl,                    \* Controller: its three stores, _nprocs and whether run() is in its loop
    chan,                   \* the messages that have arrived on the four sockets, oldest first
    owed,                   \* per REP socket: a request was received and no reply sent yet
    reply,                  \* per REP socket: the replies on their way to the client
    closed,                 \* the sockets that have been closed
    cycle,                  \* what the poll cycle that has just ended read and sent
    last_pushed,            \* per key, the signature of the last push handled without error
    client,                 \* the client of connect_controllers: what it waits for and has sent
                            \* (log: its sig_push messages, in send order)
    script,                 \* the lines _read has consumed from fp, in order
    sections,               \* SoS_Script_Parser.sections (cursect is its last element, or None)
    format_version,         \* SoS_Script_Parser.format_version
    workflow_descriptions,  \* SoS_Script_Parser.workflow_descriptions
    comment_block,          \* _read: comment_block
    stck,                   \* _read: stck, the ExprStack (category, values)
    parsing_errors,         \* _read: parsing_errors (errors, and the messages in message)
    outcome,                \* _read: "reading", "parsed", or the exception that ended it
    workflows,              \* SoS_Script_Parser.workflows: name -> SoS_Workflow
    binder                  \* the SoS_Script call that has just ended: its inputs and its result

dagvars == <<nodes, edges, all_dependent_files, all_output_files, ret>>

ctlvars == <<ctl, chan, owed, reply, closed, cycle, last_pushed, client>>

parsevars == <<script, sections, format_version, workflow_descriptions, comment_block,
               stck, parsing_errors, outcome, workflows>>

vars == <<nodes, edges, all_dependent_files, all_output_files, ret,
          ctl, chan, owed, reply, closed, cycle, last_pushed, client,
          script, sections, format_version, workflow_descriptions, comment_block,
          stck, parsing_errors, outcome, workflows, binder>>

(***************************************************************************)
(* SoS_Node                                                                *)
(***************************************************************************)
\* SoS_Node.__init__: None inputs/outputs become Undetermined, None depends
\* become the empty list (the callers below pass these already normalised)
SoS_Node(uuid, node_name, node_index, input_targets, depends_targets, output_targets, change_context) ==
    [uuid |-> uuid,
     node_id |-> node_name,
     node_index |-> node_index,
     input_targets |-> input_targets,
     depends_targets |-> depends_targets,
     output_targets |-> output_targets,
     change_context |-> change_context,
     status |-> "None"]

\* depends_on with the undetermined-input rule taken as "every earlier step"
depends_on_all_previous(self, node) ==
    IF self.status = "completed"
    THEN FALSE
    ELSE IF /\ node.change_context
            /\ node.node_index # NoIndex
            /\ self.node_index # NoIndex
            /\ node.node_index < self.node_index
    THEN TRUE
    ELSE IF /\ self.input_targets.und
            /\ node.node_index # NoIndex
            /\ self.node_index # NoIndex
            /\ node.node_index < self.node_index
    THEN TRUE
    ELSE IF /\ ~node.output_targets.und
            /\ \/ /\ ~self.input_targets.und
                  /\ \E x \in self.input_targets.set : x \in node.output_targets.set
               \/ \E x \in self.depends_targets : x \in node.output_targets.set
    THEN TRUE
    ELSE FALSE

\* depends_on with the comparison of the context-change rule turned around
depends_on_context_reversed(self, node) ==
    IF self.status = "completed"
    THEN FALSE
    ELSE IF /\ node.change_context
            /\ node.node_index # NoIndex
            /\ self.node_index # NoIndex
            /\ node.node_index > self.node_index
    THEN TRUE
    ELSE IF /\ self.input_targets.und
            /\ node.node_index # NoIndex
            /\ self.node_index # NoIndex
            /\ node.node_index = self.node_index - 1
    THEN TRUE
    ELSE IF /\ ~node.output_targets.und
            /\ \/ /\ ~self.input_targets.und
                  /\ \E x \in self.input_targets.set : x \in node.output_targets.set
               \/ \E x \in self.depends_targets : x \in node.output_targets.set
    THEN TRUE
    ELSE FALSE

\* SoS_Node.depends_on(self, node)
depends_on(self, node) ==
    IF self.status = "completed"
    THEN FALSE
    ELSE IF /\ node.change_context
            /\ node.node_index # NoIndex
            /\ self.node_index # NoIndex
            /\ node.node_index < self.node_index
    THEN TRUE
    ELSE IF /\ self.input_targets.und
            /\ node.node_index # NoIndex
            /\ self.node_index # NoIndex
            /\ node.node_index = self.node_index - 1
    THEN TRUE
    ELSE IF /\ ~node.output_targets.und
            /\ \/ /\ ~self.input_targets.und
                  /\ \E x \in self.input_targets.set : x \in node.output_targets.set
               \/ \E x \in self.depends_targets : x \in node.output_targets.set
    THEN TRUE
    ELSE FALSE

(***************************************************************************)
(* SoS_DAG                                                                 *)
(***************************************************************************)
Positions(ns) == 1..Len(ns)

\* defaultdict(list): d[x].append(name) for every x of xs
AppendName(d, xs, name) ==
    [x \in (DOMAIN d) \cup xs |->
        IF x \in xs
        THEN (IF x \in DOMAIN d THEN d[x] ELSE <<>>) \o <<name>>
        ELSE d[x]]

\* add_step that forgets to index the depends targets
add_step_dependent_inputs_only(d, node_name, input_targets, depends_targets) ==
    IF input_targets.und THEN d ELSE AppendName(d, input_targets.set, node_name)

\* SoS_DAG.add_step: the dependent-file index after the call
add_step_dependent(d, node_name, input_targets, depends_targets) ==
    LET d1 == IF input_targets.und THEN d ELSE AppendName(d, input_targets.set, node_name)
    IN  AppendName(d1, depends_targets, node_name)

\* SoS_DAG.add_step: the output-file index after the call
add_step_output(d, node_name, output_targets) ==
    IF output_targets.und THEN d ELSE AppendName(d, output_targets.set, node_name)

\* with_dependency that counts every in-edge, whatever the predecessor's status
with_dependency_any_edge(ns, es, i) ==
    \E e \in es : e[2] = i

\* with_dependency that waits for running and failed predecessors only
with_dependency_running_only(ns, es, i) ==
    \E e \in es : e[2] = i /\ ns[e[1]].status \in {"running", "failed"}

\* with_dependency that lets a node through once its predecessors have started
with_dependency_started(ns, es, i) ==
    \E e \in es : e[2] = i /\ ns[e[1]].status \notin {"completed", "running"}

\* SoS_DAG.in_edges(node) has an edge from a node that is not completed
with_dependency(ns, es, i) ==
    \E e \in es : e[2] = i /\ ns[e[1]].status # "completed"

\* the scan run from the last node to the first
RECURSIVE ScanExecutableBackwards(_, _, _)
ScanExecutableBackwards(ns, es, i) ==
    LET k == Len(ns) + 1 - i
    IN  IF i > Len(ns) THEN 0
        ELSE IF ns[k].status = "None" /\ ~with_dependency(ns, es, k) THEN k
        ELSE ScanExecutableBackwards(ns, es, i + 1)

\* first loop of find_executable, scanning the nodes from position i on:
\* the position of the first node found, 0 if the loop ends
RECURSIVE ScanExecutable(_, _, _)
ScanExecutable(ns, es, i) ==
    IF i > Len(ns) THEN 0
    ELSE IF ns[i].status = "None" /\ ~with_dependency(ns, es, i) THEN i
    ELSE ScanExecutable(ns, es, i + 1)

\* find_executable without its second loop: None whenever no node is found
find_executable_no_raise(ns, es) ==
    LET found == ScanExecutable(ns, es, 1)
    IN  IF found # 0
        THEN [kind |-> "node", node |-> found]
        ELSE [kind |-> "None", node |-> 0]

\* SoS_DAG.find_executable: a node, None, or RuntimeError raised
find_executable(ns, es) ==
    LET found == ScanExecutable(ns, es, 1)
    IN  IF found # 0
        THEN [kind |-> "node", node |-> found]
        ELSE IF \E i \in Positions(ns) : ns[i].status # "completed"
        THEN [kind |-> "RuntimeError", node |-> 0]
        ELSE [kind |-> "None", node |-> 0]

\* SoS_DAG.dangling, with exists the set of targets whose exists() is true
dangling(dep, out, exists) ==
    {x \in DOMAIN dep : x \notin DOMAIN out /\ ~(x \in exists)}

\* build that visits each unordered pair once and makes the first test only
build_half(ns, es) ==
    es \cup {<<j, i>> : <<i, j>> \in {p \in Positions(ns) \X Positions(ns) :
                                        p[1] < p[2] /\ depends_on(ns[p[1]], ns[p[2]])}}

\* SoS_DAG.build: the edges after the double loop over the nodes
build(ns, es) ==
    es \cup {<<j, i>> : <<i, j>> \in {p \in Positions(ns) \X Positions(ns) :
                                        p[1] # p[2] /\ depends_on(ns[p[1]], ns[p[2]])}}
       \cup {<<i, j>> : <<i, j>> \in {p \in Positions(ns) \X Positions(ns) :
                                        p[1] # p[2] /\ depends_on(ns[p[2]], ns[p[1]])}}

(***************************************************************************)
(* The state after SoS_DAG.__init__                                        *)
(***************************************************************************)
NoCall == [op |-> "none", kind |-> "None", node |-> 0, exists |-> {}, files |-> {}]

Returned(op, r) == [op |-> op, kind |-> r.kind, node |-> r.node, exists |-> {}, files |-> {}]

DagInit ==
    /\ nodes = <<>>
    /\ edges = {}
    /\ all_dependent_files = <<>>
    /\ all_output_files = <<>>
    /\ ret = NoCall

(***************************************************************************)
(* Operations of SoS_DAG                                                   *)
(***************************************************************************)
\* dag.add_step(uuid, node_name, node_index, input, depends, output, change_context);
\* the caller names the steps by their position
AddStep ==
    /\ Len(nodes) < MaxNodes
    /\ \E node_index \in Indexes, input_targets \in TargetSets,
          depends_targets \in SUBSET Targets, output_targets \in TargetSets,
          change_context \in BOOLEAN :
          LET name == Len(nodes) + 1 IN
          /\ nodes' = Append(nodes, SoS_Node(name, name, node_index, input_targets,
                                             depends_targets, output_targets, change_context))
          /\ all_dependent_files' =
                add_step_dependent(all_dependent_files, name, input_targets, depends_targets)
          /\ all_output_files' = add_step_output(all_output_files, name, output_targets)
    /\ ret' = [NoCall EXCEPT !.op = "add_step"]
    /\ UNCHANGED edges
    /\ UNCHANGED <<ctlvars, parsevars, binder>>

\* dag.add_step for the steps of one workflow: the caller numbers them as it
\* adds them (node_index 0, 1, ...), and they have no depends targets and
\* determined outputs
AddChainStep ==
    /\ Len(nodes) < MaxChain
    /\ \E input_targets \in TargetSets, output_targets \in TargetSets \ {Undetermined},
          change_context \in BOOLEAN :
          LET name == Len(nodes) + 1 IN
          /\ nodes' = Append(nodes, SoS_Node(name, name, Len(nodes), input_targets,
                                             {}, output_targets, change_context))
          /\ all_dependent_files' =
                add_step_dependent(all_dependent_files, name, input_targets, {})
          /\ all_output_files' = add_step_output(all_output_files, name, output_targets)
    /\ ret' = [NoCall EXCEPT !.op = "add_step"]
    /\ UNCHANGED edges
    /\ UNCHANGED <<ctlvars, parsevars, binder>>

\* dag.build(steps)
Build ==
    /\ edges' = build(nodes, edges)
    /\ ret' = [NoCall EXCEPT !.op = "build"]
    /\ UNCHANGED <<nodes, all_dependent_files, all_output_files>>
    /\ UNCHANGED <<ctlvars, parsevars, binder>>

\* find_executable that marks the node it returns as running
FindExecutableMarksRunning ==
    LET r == find_executable(nodes, edges) IN
    /\ ret' = Returned("find_executable", r)
    /\ nodes' = IF r.kind = "node" THEN [nodes EXCEPT ![r.node].status = "running"] ELSE nodes
    /\ UNCHANGED <<edges, all_dependent_files, all_output_files>>
    /\ UNCHANGED <<ctlvars, parsevars, binder>>

\* dag.find_executable()
FindExecutable ==
    /\ ret' = Returned("find_executable", find_executable(nodes, edges))
    /\ UNCHANGED <<nodes, edges, all_dependent_files, all_output_files>>
    /\ UNCHANGED <<ctlvars, parsevars, binder>>

\* dag.dangling(), for every answer of the file probe
Dangling ==
    /\ \E exists \in SUBSET Targets :
          ret' = [NoCall EXCEPT !.op = "dangling", !.exists = exists,
                     !.files = dangling(all_dependent_files, all_output_files, exists)]
    /\ UNCHANGED <<nodes, edges, all_dependent_files, all_output_files>>
    /\ UNCHANGED <<ctlvars, parsevars, binder>>

(***************************************************************************)
(* The driver: it starts the node find_executable returned, and a running  *)
(* node later completes or fails.                                          *)
(***************************************************************************)
SetStatus(i, s) ==
    /\ nodes' = [nodes EXCEPT ![i].status = s]
    /\ ret' = [NoCall EXCEPT !.op = "status"]
    /\ UNCHANGED <<edges, all_dependent_files, all_output_files>>
    /\ UNCHANGED <<ctlvars, parsevars, binder>>

Start ==
    /\ ret.op = "find_executable"
    /\ ret.kind = "node"
    /\ SetStatus(ret.node, "running")

Complete ==
    \E i \in Positions(nodes) :
        /\ nodes[i].status = "running"
        /\ SetStatus(i, "completed")

Fail ==
    \E i \in Positions(nodes) :
        /\ nodes[i].status = "running"
        /\ SetStatus(i, "failed")

(***************************************************************************)
(* The sequential driver: the steps are added and the graph is built, then *)
(* the loop calls find_executable, runs the node returned and marks it     *)
(* completed before the next call.                                         *)
(***************************************************************************)
\* the loop has not been entered
NotStarted ==
    /\ \A i \in Positions(nodes) : nodes[i].status = "None"
    /\ ret.op # "find_executable"

\* no node is running
Idle == \A i \in Positions(nodes) : nodes[i].status # "running"

SeqAddStep == NotStarted /\ AddStep

SeqBuild == NotStarted /\ Build

SeqFindExecutable == Idle /\ FindExecutable

\* one step of the loop
DriverLoop == SeqFindExecutable \/ Start \/ Complete

SeqNext ==
    \/ SeqAddStep
    \/ SeqBuild
    \/ SeqFindExecutable
    \/ Start
    \/ Complete

DagNext ==
    \/ AddStep
    \/ Build
    \/ FindExecutable
    \/ Dangling
    \/ Start
    \/ Complete
    \/ Fail

(***************************************************************************)
(* The signature controller (src/sos/controller.py)                        *)
(***************************************************************************)
\* number of messages the client sends
MaxMsgs == 3
\* the client advertises 1..MaxProcs running processes
MaxProcs == 2

TargetKeys == {"foo"}

Signatures == {"sig1", "sig2"}

StepKeys == {"step_a"}

Substeps == {0}

WorkflowIds == {"wf"}

WorkflowRecords == {"placeholder", "output"}

\* Python's None sent as a message
NoneMsg == <<>>

\* the objects send_pyobj writes: None, a signature, 'ok', a list, an int
PyNone == <<"null">>

PySig(s) == <<"value", s>>

PyOk == <<"ok">>

PyList(l) == <<"list", l>>

PyInt(n) == <<"int", n>>

Channels == {"sig_push", "sig_req", "ctl_push", "ctl_req"}

ReqChannels == {"sig_req", "ctl_req"}

\* the tuples a client sends on each socket, with one unknown kind each (and
\* unknown sub-commands on sig_req); the ("progress", ...) messages of ctl_push
\* are sent by the workers (ProgressMsgs below), not by this client
SigPushMsgs ==
    {<<"target", t, s>> : t \in TargetKeys, s \in Signatures}
    \cup {<<"step", k, i, s>> : k \in StepKeys, i \in Substeps, s \in Signatures}
    \cup {<<"workflow", w, r>> : w \in WorkflowIds, r \in WorkflowRecords}
    \cup {<<"bogus">>}

SigReqMsgs ==
    {<<"workflow", "clear">>, <<"workflow", "bogus">>}
    \cup {<<"workflow", "placeholders", w>> : w \in WorkflowIds}
    \cup {<<"workflow", "records", w>> : w \in WorkflowIds}
    \cup {<<"target", sub, t>> : sub \in {"get", "bogus"}, t \in TargetKeys}
    \cup {<<"step", sub, k, i>> : sub \in {"get", "bogus"}, k \in StepKeys, i \in Substeps}
    \cup {<<"bogus">>}

CtlPushMsgs ==
    {<<"nprocs", n>> : n \in 1..MaxProcs} \cup {NoneMsg} \cup {<<"bogus">>}

CtlReqMsgs == {<<"nprocs">>, <<"bogus">>}

\* self._subprogressbar_size
subprogressbar_size == 25
\* number of substep_completed and of substep_ignored events the workers report
MaxCompleted == 26
MaxIgnored == 1
\* number of progress events that have arrived and are not yet read
MaxQueued == 1

\* the values of env.verbosity
Verbosities == {0, 1, 2}

SubstepEvents == {"substep_ignored", "substep_completed"}

\* the ("progress", event, ...) tuples the workers send on ctl_push: msg[2] is
\* the step of a substep event and the status of step_completed (1 completed,
\* 0 skipped, > 1 in the middle, < 0 untracked); with an unknown event and
\* with tuples that are too short
ProgressMsgs ==
    {<<"progress", e, k>> : e \in SubstepEvents, k \in StepKeys}
    \cup {<<"progress", "step_completed", n>> : n \in {-1, 0, 1, 2}}
    \cup {<<"progress", "done">>, <<"progress", "bogus">>}
    \cup {<<"progress">>, <<"progress", "substep_ignored">>,
          <<"progress", "step_completed">>}

(***************************************************************************)
(* The three stores: key-value maps (TargetSignatures, StepSignatures,     *)
(* WorkflowSignatures of sos.signatures)                                   *)
(***************************************************************************)
MapSet(store, key, value) ==
    [k \in (DOMAIN store) \cup {key} |-> IF k = key THEN value ELSE store[k]]

TargetSignatures_set(store, target, sig) == MapSet(store, target, sig)

TargetSignatures_get(store, target) ==
    IF target \in DOMAIN store THEN PySig(store[target]) ELSE PyNone

StepSignatures_set(store, step_key, substep, sig) == MapSet(store, <<step_key, substep>>, sig)

StepSignatures_get(store, step_key, substep) ==
    IF <<step_key, substep>> \in DOMAIN store THEN PySig(store[<<step_key, substep>>]) ELSE PyNone

WorkflowSignatures_records(store, workflow_id) ==
    IF workflow_id \in DOMAIN store THEN store[workflow_id] ELSE <<>>

WorkflowSignatures_write(store, workflow_id, record) ==
    MapSet(store, workflow_id, Append(WorkflowSignatures_records(store, workflow_id), record))

IsPlaceholder(r) == r = "placeholder"

WorkflowSignatures_placeholders(store, workflow_id) ==
    SelectSeq(WorkflowSignatures_records(store, workflow_id), IsPlaceholder)

WorkflowSignatures_clear(store) == <<>>

(***************************************************************************)
(* Controller.run: the handlers of one poll cycle.  c is the controller's  *)
(* own state; fault says that the store operation the handler calls raises.*)
(***************************************************************************)
\* msg[0] of a message; on None it raises TypeError
Kind(msg) == IF Len(msg) = 0 THEN "TypeError" ELSE msg[1]

\* the sig_push handler raises (and the exception is logged)
SigPushRaises(msg, fault) ==
    \/ Kind(msg) = "TypeError"
    \/ Kind(msg) \in {"workflow", "target", "step"} /\ fault

\* the 'step' branch misspelt, so that step signatures are never stored
HandleSigPushStepTypo(c, msg, fault) ==
    IF SigPushRaises(msg, fault) THEN c
    ELSE IF msg[1] = "workflow"
    THEN [c EXCEPT !.workflow_signatures = WorkflowSignatures_write(@, msg[2], msg[3])]
    ELSE IF msg[1] = "target"
    THEN [c EXCEPT !.target_signatures = TargetSignatures_set(@, msg[2], msg[3])]
    ELSE c

\* the 'target' branch keeping the signature a target already has
HandleSigPushKeepFirst(c, msg, fault) ==
    IF SigPushRaises(msg, fault) THEN c
    ELSE IF msg[1] = "workflow"
    THEN [c EXCEPT !.workflow_signatures = WorkflowSignatures_write(@, msg[2], msg[3])]
    ELSE IF msg[1] = "target"
    THEN IF msg[2] \in DOMAIN c.target_signatures THEN c
         ELSE [c EXCEPT !.target_signatures = TargetSignatures_set(@, msg[2], msg[3])]
    ELSE IF msg[1] = "step"
    THEN [c EXCEPT !.step_signatures = StepSignatures_set(@, msg[2], msg[3], msg[4])]
    ELSE c

\* the handler without its try/except: the exception ends the thread
HandleSigPushUncaught(c, msg, fault) ==
    IF SigPushRaises(msg, fault) THEN [c EXCEPT !.running = FALSE]
    ELSE IF msg[1] = "workflow"
    THEN [c EXCEPT !.workflow_signatures = WorkflowSignatures_write(@, msg[2], msg[3])]
    ELSE IF msg[1] = "target"
    THEN [c EXCEPT !.target_signatures = TargetSignatures_set(@, msg[2], msg[3])]
    ELSE IF msg[1] = "step"
    THEN [c EXCEPT !.step_signatures = StepSignatures_set(@, msg[2], msg[3], msg[4])]
    ELSE c

\* sig_push handler: the controller's state after the message
HandleSigPush(c, msg, fault) ==
    IF SigPushRaises(msg, fault) THEN c
    ELSE IF msg[1] = "workflow"
    THEN [c EXCEPT !.workflow_signatures = WorkflowSignatures_write(@, msg[2], msg[3])]
    ELSE IF msg[1] = "target"
    THEN [c EXCEPT !.target_signatures = TargetSignatures_set(@, msg[2], msg[3])]
    ELSE IF msg[1] = "step"
    THEN [c EXCEPT !.step_signatures = StepSignatures_set(@, msg[2], msg[3], msg[4])]
    ELSE c

\* the sig_req request calls a store operation
SigReqUsesStore(msg) ==
    \/ Kind(msg) = "workflow" /\ msg[2] \in {"clear", "placeholders", "records"}
    \/ Kind(msg) \in {"target", "step"} /\ msg[2] = "get"

\* the sig_req handler raises: the except clause logs and sends None
SigReqRaises(msg, fault) ==
    \/ Kind(msg) \notin {"workflow", "target", "step"}
    \/ SigReqUsesStore(msg) /\ fault

\* sig_req handler: the controller's state after the request
HandleSigReq(c, msg, fault) ==
    IF SigReqRaises(msg, fault) THEN c
    ELSE IF msg[1] = "workflow" /\ msg[2] = "clear"
    THEN [c EXCEPT !.workflow_signatures = WorkflowSignatures_clear(@)]
    ELSE c

\* the except clause of sig_req without its send_pyobj(None)
SigReqSendsNoNone(c, msg, fault) ==
    IF SigReqRaises(msg, fault) THEN <<>>
    ELSE IF msg[1] = "workflow"
    THEN IF msg[2] = "clear" THEN <<PyOk>>
         ELSE IF msg[2] = "placeholders"
         THEN <<PyList(WorkflowSignatures_placeholders(c.workflow_signatures, msg[3]))>>
         ELSE IF msg[2] = "records"
         THEN <<PyList(WorkflowSignatures_records(c.workflow_signatures, msg[3]))>>
         ELSE <<>>
    ELSE IF msg[1] = "target"
    THEN IF msg[2] = "get"
         THEN <<TargetSignatures_get(c.target_signatures, msg[3])>>
         ELSE <<>>
    ELSE IF msg[2] = "get"
         THEN <<StepSignatures_get(c.step_signatures, msg[3], msg[4])>>
         ELSE <<>>

\* sig_req handler: the objects it sends with send_pyobj, in order
SigReqSends(c, msg, fault) ==
    IF SigReqRaises(msg, fault) THEN <<PyNone>>
    ELSE IF msg[1] = "workflow"
    THEN IF msg[2] = "clear" THEN <<PyOk>>
         ELSE IF msg[2] = "placeholders"
         THEN <<PyList(WorkflowSignatures_placeholders(c.workflow_signatures, msg[3]))>>
         ELSE IF msg[2] = "records"
         THEN <<PyList(WorkflowSignatures_records(c.workflow_signatures, msg[3]))>>
         ELSE <<>>
    ELSE IF msg[1] = "target"
    THEN IF msg[2] = "get"
         THEN <<TargetSignatures_get(c.target_signatures, msg[3])>>
         ELSE <<>>
    ELSE IF msg[2] = "get"
         THEN <<StepSignatures_get(c.step_signatures, msg[3], msg[4])>>
         ELSE <<>>

\* d[k] += 1 on a defaultdict(int)
Increment(d, k) == MapSet(d, k, IF k \in DOMAIN d THEN d[k] + 1 ELSE 1)

\* sum(d.values())
RECURSIVE SumValues(_)
SumValues(d) ==
    IF DOMAIN d = {} THEN 0
    ELSE LET k == CHOOSE x \in DOMAIN d : TRUE
         IN  d[k] + SumValues([x \in (DOMAIN d) \ {k} |-> d[x]])

\* the progress branch raises: msg[1] or msg[2] is missing where it is read
ProgressRaises(c, msg) ==
    \/ Len(msg) < 2
    \/ Len(msg) < 3 /\ msg[2] \in SubstepEvents
    \/ Len(msg) < 3 /\ msg[2] = "step_completed" /\ c.verbosity = 1

\* the throttled update of the sub progress bar without the reset of a full bar
ThrottledUpdateNoReset(c, event) ==
    IF ~c.elapsed THEN c
    ELSE [c EXCEPT !.subprogressbar_cnt = IF event \in SubstepEvents THEN @ + 1 ELSE @,
                   !.elapsed = FALSE]

\* lines 160-170: when more than a second has passed since the last update,
\* a full bar is erased, a substep event adds one dot, and the time of the
\* last update is set to now
ThrottledUpdate(c, event) ==
    IF ~c.elapsed THEN c
    ELSE LET cnt == IF c.subprogressbar_cnt = subprogressbar_size
                    THEN 0 ELSE c.subprogressbar_cnt
         IN  [c EXCEPT !.subprogressbar_cnt = IF event \in SubstepEvents THEN cnt + 1 ELSE cnt,
                       !.elapsed = FALSE]

\* lines 143-183, the ('progress', event, ...) branch: the counters of the
\* substep events, and at verbosity 1 the sub progress bar (done writes the
\* summary and leaves the bar's counter as it is; step_completed erases the
\* bar before it reads msg[2]).  What is written to stderr is not part of
\* the state.
HandleProgress(c, msg) ==
    IF Len(msg) < 2 \/ (Len(msg) < 3 /\ msg[2] \in SubstepEvents) THEN c
    ELSE LET event == msg[2]
             c1 == IF event = "substep_ignored"
                   THEN [c EXCEPT !.ignored = Increment(@, msg[3])]
                   ELSE IF event = "substep_completed"
                   THEN [c EXCEPT !.completed = Increment(@, msg[3])]
                   ELSE c
         IN  IF c.verbosity # 1 \/ event = "done" THEN c1
             ELSE LET c2 == ThrottledUpdate(c1, event)
                  IN  IF event = "step_completed"
                      THEN [c2 EXCEPT !.subprogressbar_cnt = 0]
                      ELSE c2

\* lines 143-183 cut short: the states of the controller between two
\* statements of the progress branch, from the message just received to the
\* bar just erased by step_completed (line 174, before msg[2] is read)
ProgressStages(c, msg) ==
    IF Len(msg) < 2 \/ (Len(msg) < 3 /\ msg[2] \in SubstepEvents) THEN {c}
    ELSE LET event == msg[2]
             c1 == IF event = "substep_ignored"
                   THEN [c EXCEPT !.ignored = Increment(@, msg[3])]
                   ELSE IF event = "substep_completed"
                   THEN [c EXCEPT !.completed = Increment(@, msg[3])]
                   ELSE c
         IN  IF c.verbosity # 1 \/ event = "done" THEN {c, c1}
             ELSE LET c2 == [c1 EXCEPT !.subprogressbar_cnt =
                                          IF @ = subprogressbar_size THEN 0 ELSE @]
                      c3 == [c2 EXCEPT !.subprogressbar_cnt =
                                          IF event \in SubstepEvents THEN @ + 1 ELSE @]
                      c4 == [c3 EXCEPT !.elapsed = FALSE]
                      throttled == IF c.elapsed THEN {c2, c3, c4} ELSE {}
                      erased == IF event = "step_completed"
                                THEN {[ThrottledUpdate(c1, event)
                                          EXCEPT !.subprogressbar_cnt = 0]}
                                ELSE {}
                  IN  {c, c1} \cup throttled \cup erased

\* the ctl_push handler raises (and the exception is logged)
CtlPushRaises(c, msg) ==
    /\ msg # NoneMsg
    /\ msg[1] # "nprocs"
    /\ msg[1] = "progress" => ProgressRaises(c, msg)

\* the ctl_push handler without the break on None
HandleCtlPushNoBreak(c, msg) ==
    IF msg = NoneMsg THEN c
    ELSE IF msg[1] = "nprocs" THEN [c EXCEPT !.nprocs = msg[2]]
    ELSE c

\* ctl_push handler: the controller's state after the message
HandleCtlPush(c, msg) ==
    IF msg = NoneMsg THEN [c EXCEPT !.running = FALSE]
    ELSE IF msg[1] = "nprocs" THEN [c EXCEPT !.nprocs = msg[2]]
    ELSE IF msg[1] = "progress" THEN HandleProgress(c, msg)
    ELSE c

\* the ctl_req handler raises (and the exception is logged)
CtlReqRaises(msg) == Kind(msg) # "nprocs"

\* ctl_req handler: the objects it sends with send_pyobj, in order
CtlReqSends(c, msg) ==
    IF CtlReqRaises(msg) THEN <<>> ELSE <<PyInt(c.nprocs)>>

FirstOf(q, ch, read) == IF ch \in read THEN Head(q[ch]) ELSE <<>>

\* the body of the loop with the request answered before the push is stored
PollResultRequestFirst(c, q, socks, fault_push, fault_req) ==
    LET m_sp == FirstOf(q, "sig_push", socks)
        m_sr == FirstOf(q, "sig_req", socks)
        m_cp == FirstOf(q, "ctl_push", socks)
        m_cr == FirstOf(q, "ctl_req", socks)
        c1 == IF "sig_req" \in socks THEN HandleSigReq(c, m_sr, fault_req) ELSE c
        c2 == IF "sig_push" \in socks THEN HandleSigPush(c1, m_sp, fault_push) ELSE c1
        c3 == IF "ctl_push" \in socks THEN HandleCtlPush(c2, m_cp) ELSE c2
        read == IF c3.running THEN socks ELSE socks \ {"ctl_req"}
    IN  [ctl |-> c3,
         read |-> read,
         msg |-> [sig_push |-> m_sp, sig_req |-> m_sr, ctl_push |-> m_cp,
                  ctl_req |-> FirstOf(q, "ctl_req", read)],
         sent |-> [sig_req |-> IF "sig_req" \in read
                               THEN SigReqSends(c, m_sr, fault_req) ELSE <<>>,
                   ctl_req |-> IF "ctl_req" \in read
                               THEN CtlReqSends(c3, m_cr) ELSE <<>>],
         raised |-> {ch \in read :
                        \/ ch = "sig_push" /\ SigPushRaises(m_sp, fault_push)
                        \/ ch = "sig_req" /\ SigReqRaises(m_sr, fault_req)
                        \/ ch = "ctl_push" /\ CtlPushRaises(c2, m_cp)
                        \/ ch = "ctl_req" /\ CtlReqRaises(m_cr)}]

\* the body of the loop with the break on None made after ctl_req is handled
PollResultBreakAtEnd(c, q, socks, fault_push, fault_req) ==
    LET m_sp == FirstOf(q, "sig_push", socks)
        m_sr == FirstOf(q, "sig_req", socks)
        m_cp == FirstOf(q, "ctl_push", socks)
        m_cr == FirstOf(q, "ctl_req", socks)
        c1 == IF "sig_push" \in socks THEN HandleSigPush(c, m_sp, fault_push) ELSE c
        c2 == IF "sig_req" \in socks THEN HandleSigReq(c1, m_sr, fault_req) ELSE c1
        c3 == IF "ctl_push" \in socks THEN HandleCtlPush(c2, m_cp) ELSE c2
    IN  [ctl |-> c3,
         read |-> socks,
         msg |-> [sig_push |-> m_sp, sig_req |-> m_sr, ctl_push |-> m_cp, ctl_req |-> m_cr],
         sent |-> [sig_req |-> IF "sig_req" \in socks
                               THEN SigReqSends(c1, m_sr, fault_req) ELSE <<>>,
                   ctl_req |-> IF "ctl_req" \in socks
                               THEN CtlReqSends(c3, m_cr) ELSE <<>>],
         raised |-> {ch \in socks :
                        \/ ch = "sig_push" /\ SigPushRaises(m_sp, fault_push)
                        \/ ch = "sig_req" /\ SigReqRaises(m_sr, fault_req)
                        \/ ch = "ctl_push" /\ CtlPushRaises(c2, m_cp)
                        \/ ch = "ctl_req" /\ CtlReqRaises(m_cr)}]

\* the body of the while loop for the set socks of sockets poll() reported:
\* at most one message of each socket, in the order sig_push, sig_req,
\* ctl_push, ctl_req; None on ctl_push breaks out before ctl_req is read
PollResult(c, q, socks, fault_push, fault_req) ==
    LET m_sp == FirstOf(q, "sig_push", socks)
        m_sr == FirstOf(q, "sig_req", socks)
        m_cp == FirstOf(q, "ctl_push", socks)
        m_cr == FirstOf(q, "ctl_req", socks)
        c1 == IF "sig_push" \in socks THEN HandleSigPush(c, m_sp, fault_push) ELSE c
        c2 == IF "sig_req" \in socks THEN HandleSigReq(c1, m_sr, fault_req) ELSE c1
        c3 == IF "ctl_push" \in socks THEN HandleCtlPush(c2, m_cp) ELSE c2
        read == IF c3.running THEN socks ELSE socks \ {"ctl_req"}
    IN  [ctl |-> c3,
         read |-> read,
         msg |-> [sig_push |-> m_sp, sig_req |-> m_sr, ctl_push |-> m_cp,
                  ctl_req |-> FirstOf(q, "ctl_req", read)],
         sent |-> [sig_req |-> IF "sig_req" \in read
                               THEN SigReqSends(c1, m_sr, fault_req) ELSE <<>>,
                   ctl_req |-> IF "ctl_req" \in read
                               THEN CtlReqSends(c3, m_cr) ELSE <<>>],
         raised |-> {ch \in read :
                        \/ ch = "sig_push" /\ SigPushRaises(m_sp, fault_push)
                        \/ ch = "sig_req" /\ SigReqRaises(m_sr, fault_req)
                        \/ ch = "ctl_push" /\ CtlPushRaises(c2, m_cp)
                        \/ ch = "ctl_req" /\ CtlReqRaises(m_cr)}]

\* the key and the signature of a ("target", ...) or ("step", ...) push
PushKey(msg) == IF msg[1] = "target" THEN <<"target", msg[2]>> ELSE <<"step", msg[2], msg[3]>>

PushSig(msg) == msg[Len(msg)]

IsSigPush(msg) == Kind(msg) \in {"target", "step"}

\* the key a ("target", "get", ...) or ("step", "get", ...) request asks for
IsGet(msg) == Kind(msg) \in {"target", "step"} /\ msg[2] = "get"

GetKey(msg) == IF msg[1] = "target" THEN <<"target", msg[3]>> ELSE <<"step", msg[3], msg[4]>>

(***************************************************************************)
(* The state when run() has bound its sockets, set ready and entered its   *)
(* loop, and the client has connected                                      *)
(***************************************************************************)
NoCycle ==
    [read |-> {}, unread_push |-> 0,
     msg |-> [sig_push |-> <<>>, sig_req |-> <<>>, ctl_push |-> <<>>, ctl_req |-> <<>>],
     sent |-> [sig_req |-> <<>>, ctl_req |-> <<>>],
     raised |-> {}]

CtlInit ==
    /\ ctl = [target_signatures |-> <<>>, step_signatures |-> <<>>,
              workflow_signatures |-> <<>>, nprocs |-> 0, running |-> TRUE,
              completed |-> <<>>, ignored |-> <<>>, subprogressbar_cnt |-> 0,
              elapsed |-> FALSE, verbosity |-> 1,
              interrupted |-> FALSE, close_interrupted |-> FALSE]
    /\ chan = [sig_push |-> <<>>, sig_req |-> <<>>, ctl_push |-> <<>>, ctl_req |-> <<>>]
    /\ owed = [sig_req |-> FALSE, ctl_req |-> FALSE]
    /\ reply = [sig_req |-> <<>>, ctl_req |-> <<>>]
    /\ closed = {}
    /\ cycle = NoCycle
    /\ last_pushed = <<>>
    /\ client = [waiting |-> "none", nsent |-> 0, pushed |-> <<>>, log |-> <<>>]

(***************************************************************************)
(* The controller's poll cycle                                             *)
(***************************************************************************)
\* the sockets poll() reports: a message has arrived, and a REP socket is not
\* in the middle of a request
Readable ==
    {ch \in Channels : chan[ch] # <<>> /\ (ch \in ReqChannels => ~owed[ch])}

\* the place of a socket in the order in which a pass reads the sockets
\* (lines 92, 106, 135, 189) and in which they are closed (lines 207-210)
Rank == [sig_push |-> 1, sig_req |-> 2, ctl_push |-> 3, ctl_req |-> 4]

\* the loop is left with the controller's state c and the first n sockets
\* get closed: with fewer than four a KeyboardInterrupt raised in lines
\* 207-210, outside the try, has ended run()
LeaveLoop(c, n) == [c EXCEPT !.running = FALSE, !.close_interrupted = n < 4]

\* one pass of the while loop, the store operations raising as Faults allows;
\* after a break the four sockets are closed and run() returns
Poll(Faults) ==
    /\ ctl.running
    /\ Readable # {}
    /\ \E fault_push \in Faults, fault_req \in Faults :
          LET r == PollResult(ctl, chan, Readable, fault_push, fault_req) IN
          /\ \E n \in 0..4 :
                IF r.ctl.running
                THEN n = 4 /\ ctl' = r.ctl /\ closed' = closed
                ELSE /\ ctl' = LeaveLoop(r.ctl, n)
                     /\ closed' = {ch \in Channels : Rank[ch] <= n}
          /\ chan' = [ch \in Channels |-> IF ch \in r.read THEN Tail(chan[ch]) ELSE chan[ch]]
          /\ owed' = [ch \in ReqChannels |->
                         IF ch \in r.read THEN r.sent[ch] = <<>> ELSE owed[ch]]
          /\ reply' = [ch \in ReqChannels |-> reply[ch] \o r.sent[ch]]
          /\ cycle' = [read |-> r.read, unread_push |-> Len(chan.sig_push),
                       msg |-> r.msg, sent |-> r.sent, raised |-> r.raised]
          /\ last_pushed' =
                IF "sig_push" \in r.read \ r.raised /\ IsSigPush(r.msg.sig_push)
                THEN MapSet(last_pushed, PushKey(r.msg.sig_push), PushSig(r.msg.sig_push))
                ELSE last_pushed
    /\ UNCHANGED client
    /\ UNCHANGED <<dagvars, parsevars, binder>>

\* a poll cycle in which no store operation raises
PollCycle == Poll({FALSE})

\* the handler of socket ch cut short by a KeyboardInterrupt, which its
\* except Exception does not catch: recv_pyobj has returned msg and the
\* handler has not finished.  The controller's state at that point, and
\* whether the except clause had been entered.  A sig_req handler is cut
\* before its send_pyobj, a store operation has been made or has not.
CutHandler(c, ch, msg, fault) ==
    IF ch = "sig_req"
    THEN {[ctl |-> c, raised |-> FALSE],
          [ctl |-> HandleSigReq(c, msg, fault), raised |-> SigReqRaises(msg, fault)]}
    ELSE IF ch = "ctl_push" /\ Kind(msg) = "progress"
    THEN {[ctl |-> st, raised |-> FALSE] : st \in ProgressStages(c, msg)}
    ELSE {[ctl |-> c, raised |-> FALSE]}

\* lines 204-205 and 207-210: KeyboardInterrupt is raised inside the try of
\* line 89.  The first sockets of those poll() reported have been handled
\* (none of them when it is raised in poll()), the handler of the next one
\* may have been cut short, the other messages are left unread; the except
\* clause breaks out of the loop and the sockets are closed.
InterruptedPass(Faults) ==
    /\ ctl.running
    /\ \E handled \in {{ch \in Readable : Rank[ch] <= k} : k \in 0..4},
          fault_push \in Faults, fault_req \in Faults, n \in 0..4 :
          LET r == PollResult(ctl, chan, handled, fault_push, fault_req)
              whole == [ch |-> "none", ctl |-> r.ctl, raised |-> FALSE]
              next == {x \in Readable \ handled :
                          \A y \in Readable \ handled : Rank[x] <= Rank[y]}
              cuts == UNION {{[ch |-> x, ctl |-> h.ctl, raised |-> h.raised] :
                                h \in CutHandler(r.ctl, x, Head(chan[x]), fault_req)} :
                             x \in next}
          IN  /\ r.ctl.running
              /\ \E cut \in {whole} \cup cuts :
                    LET read == handled \cup (Channels \cap {cut.ch}) IN
                    /\ ctl' = [LeaveLoop(cut.ctl, n) EXCEPT !.interrupted = TRUE]
                    /\ closed' = {ch \in Channels : Rank[ch] <= n}
                    /\ chan' = [ch \in Channels |->
                                   IF ch \in read THEN Tail(chan[ch]) ELSE chan[ch]]
                    /\ owed' = [ch \in ReqChannels |->
                                   IF ch \in read THEN r.sent[ch] = <<>> ELSE owed[ch]]
                    /\ reply' = [ch \in ReqChannels |-> reply[ch] \o r.sent[ch]]
                    /\ cycle' = [read |-> read, unread_push |-> Len(chan.sig_push),
                                 msg |-> [ch \in Channels |-> FirstOf(chan, ch, read)],
                                 sent |-> r.sent,
                                 raised |-> r.raised \cup
                                            (IF cut.raised THEN {cut.ch} ELSE {})]
                    /\ last_pushed' =
                          IF "sig_push" \in handled \ r.raised /\ IsSigPush(r.msg.sig_push)
                          THEN MapSet(last_pushed, PushKey(r.msg.sig_push),
                                      PushSig(r.msg.sig_push))
                          ELSE last_pushed
    /\ UNCHANGED client
    /\ UNCHANGED <<dagvars, parsevars, binder>>

\* a KeyboardInterrupt in a pass in which no store operation raises
KeyboardInterrupt == InterruptedPass({FALSE})

\* a KeyboardInterrupt in a pass in which the store operations may raise
KeyboardInterruptFaulty == InterruptedPass(BOOLEAN)

\* a poll cycle in which the store operations may raise
PollCycleFaulty == Poll(BOOLEAN)

(***************************************************************************)
(* The client (connect_controllers): one PUSH and one REQ socket per pair; *)
(* after send_pyobj on a REQ socket it blocks in recv_pyobj.  A message is *)
(* in chan once it has arrived; nothing arrives at closed sockets.         *)
(***************************************************************************)
CanSend ==
    /\ ctl.running
    /\ client.waiting = "none"
    /\ client.nsent < MaxMsgs

Send(ch, m) ==
    /\ chan' = [chan EXCEPT ![ch] = Append(@, m)]
    /\ client' = [client EXCEPT
                    !.nsent = @ + 1,
                    !.waiting = IF ch \in ReqChannels THEN ch ELSE @,
                    !.pushed = IF ch = "sig_push" /\ IsSigPush(m)
                               THEN MapSet(@, PushKey(m), PushSig(m)) ELSE @,
                    !.log = IF ch = "sig_push" THEN Append(@, m) ELSE @]
    /\ cycle' = NoCycle
    /\ UNCHANGED <<ctl, owed, reply, closed, last_pushed>>
    /\ UNCHANGED <<dagvars, parsevars, binder>>

SendSigPush == CanSend /\ \E m \in SigPushMsgs : Send("sig_push", m)

SendSigReq == CanSend /\ \E m \in SigReqMsgs : Send("sig_req", m)

SendCtlPush == CanSend /\ \E m \in CtlPushMsgs : Send("ctl_push", m)

SendCtlReq == CanSend /\ \E m \in CtlReqMsgs : Send("ctl_req", m)

\* recv_pyobj on the REQ socket returns
ClientRecv ==
    /\ client.waiting \in ReqChannels
    /\ reply[client.waiting] # <<>>
    /\ reply' = [reply EXCEPT ![client.waiting] = Tail(@)]
    /\ client' = [client EXCEPT !.waiting = "none"]
    /\ cycle' = NoCycle
    /\ UNCHANGED <<ctl, chan, owed, closed, last_pushed>>
    /\ UNCHANGED <<dagvars, parsevars, binder>>

(***************************************************************************)
(* The progress display: the workers report progress on ctl_push, the      *)
(* clock advances, and env.verbosity is set by the program's options       *)
(***************************************************************************)
\* a worker's send_pyobj(('progress', ...)) on its controller_push_socket
SendProgress ==
    /\ ctl.running
    /\ Len(chan.ctl_push) < MaxQueued
    /\ \E m \in ProgressMsgs :
          /\ (Len(m) = 3 /\ m[2] = "substep_completed")
                => SumValues(ctl.completed) < MaxCompleted
          /\ (Len(m) = 3 /\ m[2] = "substep_ignored")
                => SumValues(ctl.ignored) < MaxIgnored
          /\ chan' = [chan EXCEPT !.ctl_push = Append(@, m)]
    /\ cycle' = NoCycle
    /\ UNCHANGED <<ctl, owed, reply, closed, last_pushed, client>>
    /\ UNCHANGED <<dagvars, parsevars, binder>>

\* more than one second has passed since _subprogressbar_last_updated
Tick ==
    /\ ctl.running
    /\ ~ctl.elapsed
    /\ ctl' = [ctl EXCEPT !.elapsed = TRUE]
    /\ cycle' = NoCycle
    /\ UNCHANGED <<chan, owed, reply, closed, last_pushed, client>>
    /\ UNCHANGED <<dagvars, parsevars, binder>>

\* env.verbosity is given another value
SetVerbosity ==
    /\ ctl.running
    /\ \E v \in Verbosities \ {ctl.verbosity} : ctl' = [ctl EXCEPT !.verbosity = v]
    /\ cycle' = NoCycle
    /\ UNCHANGED <<chan, owed, reply, closed, last_pushed, client>>
    /\ UNCHANGED <<dagvars, parsevars, binder>>

(***************************************************************************)
(* pysos/sos_script.py: the script parser.                                 *)
(*                                                                         *)
(* A line of the script is a record: text is the line with its newline,    *)
(* shape tells which of the parser's tests the text passes (it starts with *)
(* '#', it is blank, or SECTION_HEADER, ASSIGNMENT or DIRECTIVE matches    *)
(* it; "other" for the rest), and the remaining fields are the groups of   *)
(* the regular expression that matched.  Section names and format names    *)
(* are sequences of characters, so that SECTION_NAME, FORMAT_VERSION and   *)
(* int() work on the characters as the code does.  A string the code       *)
(* builds by concatenation is the sequence of the strings concatenated.    *)
(***************************************************************************)
\* number of lines of a script
MaxLines == 5

LowerLetters ==
    <<"a", "b", "c", "d", "e", "f", "g", "h", "i", "j", "k", "l", "m",
      "n", "o", "p", "q", "r", "s", "t", "u", "v", "w", "x", "y", "z">>

UpperLetters ==
    <<"A", "B", "C", "D", "E", "F", "G", "H", "I", "J", "K", "L", "M",
      "N", "O", "P", "Q", "R", "S", "T", "U", "V", "W", "X", "Y", "Z">>

Digits == <<"0", "1", "2", "3", "4", "5", "6", "7", "8", "9">>

IsLower(c) == \E i \in DOMAIN LowerLetters : LowerLetters[i] = c

IsLetter(c) == IsLower(c) \/ \E i \in DOMAIN UpperLetters : UpperLetters[i] = c

IsDigit(c) == \E i \in DOMAIN Digits : Digits[i] = c

\* \w of the regular expressions
IsWord(c) == IsLetter(c) \/ IsDigit(c) \/ c = "_"

\* str.upper() of one character
upper(c) ==
    IF IsLower(c) THEN UpperLetters[CHOOSE i \in DOMAIN LowerLetters : LowerLetters[i] = c]
    ELSE c

\* int() of a string of digits
RECURSIVE int(_)
int(t) ==
    IF t = <<>> THEN 0
    ELSE 10 * int(SubSeq(t, 1, Len(t) - 1))
         + (CHOOSE n \in 0..9 : Digits[n + 1] = t[Len(t)])

\* Python's None where a string of characters is expected
None == <<>>

_PARAMETERS_SECTION_NAME == <<"p", "a", "r", "a", "m", "e", "t", "e", "r", "s">>

DefaultName == <<"d", "e", "f", "a", "u", "l", "t">>

CommentLine(text) ==
    [shape |-> "comment", text |-> text, format_line |-> FALSE, format_name |-> None]

\* a line FORMAT_LINE matches, and its group format_name
FormatLine(text, format_name) ==
    [shape |-> "comment", text |-> text, format_line |-> TRUE, format_name |-> format_name]

BlankLine == [shape |-> "blank", text |-> "\n"]

\* a line SECTION_HEADER matches, and its group section_name (the headers of
\* the model have no ':' part: the group section_option is None)
HeaderLine(text, section_name) ==
    [shape |-> "header", text |-> text, section_name |-> section_name]

\* a line ASSIGNMENT matches, and its groups
AssignmentLine(text, var_name, var_value) ==
    [shape |-> "assignment", text |-> text, var_name |-> var_name, var_value |-> var_value]

\* a line DIRECTIVE matches, and its groups
DirectiveLine(text, directive_name, directive_value) ==
    [shape |-> "directive", text |-> text,
     directive_name |-> directive_name, directive_value |-> directive_value]

\* any other line; indented: line[0].isspace()
OtherLine(text, indented) ==
    [shape |-> "other", text |-> text, indented |-> indented]

\* the lines scripts of the model are made of
Lines ==
    { CommentLine("# c\n"),
      FormatLine("#fileformat=SOS1.1\n", <<"S", "O", "S", "1", ".", "1">>),
      FormatLine("#fileformat=SS2\n", <<"S", "S", "2">>),
      FormatLine("#fileformat=SOS\n", <<"S", "O", "S">>),
      FormatLine("#fileformat=SOS1.0beta\n",
                 <<"S", "O", "S", "1", ".", "0", "b", "e", "t", "a">>),
      BlankLine,
      HeaderLine("[2]\n", <<"2">>),
      HeaderLine("[10]\n", <<"1", "0">>),
      HeaderLine("[ab_2]\n", <<"a", "b", "_", "2">>),
      HeaderLine("[b*_2]\n", <<"b", "*", "_", "2">>),
      HeaderLine("[parameters]\n", _PARAMETERS_SECTION_NAME),
      HeaderLine("[aux,2]\n", <<"a", "u", "x", ",", "2">>),
      HeaderLine("[a_]\n", <<"a", "_">>),
      AssignmentLine("x = 1\n", "x", "1"),
      AssignmentLine("x = [\n", "x", "["),
      DirectiveLine("input: 'f'\n", "input", "'f'"),
      OtherLine("run()\n", FALSE),
      OtherLine("  ]\n", TRUE) }

IsIndented(line) == line.shape = "other" /\ line.indented

\* str.split(sep) of a string of characters
RECURSIVE split(_, _)
split(t, sep) ==
    IF \A j \in DOMAIN t : t[j] # sep THEN <<t>>
    ELSE LET k == CHOOSE j \in DOMAIN t : t[j] = sep /\ \A h \in 1..(j - 1) : t[h] # sep
         IN  <<SubSeq(t, 1, k - 1)>> \o split(SubSeq(t, k + 1, Len(t)), sep)

\* SECTION_NAME: what may follow a name that ends at position k of t, nothing
\* or _ and digits up to the end
SectionNameRest(t, k) ==
    \/ k = Len(t)
    \/ /\ Len(t) >= k + 2
       /\ t[k + 1] = "_"
       /\ \A j \in (k + 2)..Len(t) : IsDigit(t[j])

\* SECTION_NAME: the group name can end at position k >= 2 of t
SectionNameEnd(t, k) ==
    /\ \A j \in 2..(k - 1) : IsWord(t[j]) \/ t[j] = "*"
    /\ IsLetter(t[k]) \/ IsDigit(t[k]) \/ t[k] = "*"

\* SECTION_NAME.match(t) with the groups name, index and default_index (None
\* for a group that did not take part).  The optional tail of the name is
\* tried before the name of one character, shortest tail first, so the name
\* takes "_" and digits whenever what follows it still matches.
SECTION_NAME(t) ==
    IF t # <<>> /\ (IsLetter(t[1]) \/ t[1] = "*")
    THEN LET ends == {k \in 2..Len(t) : SectionNameEnd(t, k) /\ SectionNameRest(t, k)}
             k == IF ends # {} THEN CHOOSE e \in ends : \A f \in ends : e <= f
                  ELSE 1
         IN  IF ends = {} /\ ~SectionNameRest(t, 1)
             THEN [matched |-> FALSE, name |-> None, index |-> None, default_index |-> None]
             ELSE [matched |-> TRUE,
                   name |-> SubSeq(t, 1, k),
                   index |-> IF k = Len(t) THEN None ELSE SubSeq(t, k + 2, Len(t)),
                   default_index |-> None]
    ELSE IF t # <<>> /\ \A j \in DOMAIN t : IsDigit(t[j])
    THEN [matched |-> TRUE, name |-> None, index |-> None, default_index |-> t]
    ELSE [matched |-> FALSE, name |-> None, index |-> None, default_index |-> None]

\* the (name, index) pairs one name of a header adds to step_names
StepNamesOf(t) ==
    LET mo == SECTION_NAME(t) IN
    IF ~mo.matched THEN <<>>
    ELSE (IF mo.name # None THEN <<<<mo.name, mo.index>>>> ELSE <<>>)
         \o (IF mo.default_index # None THEN <<<<DefaultName, mo.default_index>>>> ELSE <<>>)

\* step_names of a header: the pairs of its names, in order
RECURSIVE StepNames(_)
StepNames(tokens) ==
    IF tokens = <<>> THEN <<>>
    ELSE StepNamesOf(Head(tokens)) \o StepNames(Tail(tokens))

\* the names of a header SECTION_NAME does not match
InvalidNames(tokens) == {j \in DOMAIN tokens : ~SECTION_NAME(tokens[j]).matched}

\* format_name.upper().startswith('SOS')
StartsWithSOS(format_name) ==
    /\ Len(format_name) >= 3
    /\ upper(format_name[1]) = "S"
    /\ upper(format_name[2]) = "O"
    /\ upper(format_name[3]) = "S"

\* FORMAT_VERSION with the version made optional: [\d\.]* in place of [\d\.]+
FORMAT_VERSION_optional(format_name) ==
    LET cuts == {k \in 1..Len(format_name) :
                    /\ \A j \in 1..k : IsLetter(format_name[j])
                    /\ \A j \in (k + 1)..Len(format_name) :
                            IsDigit(format_name[j]) \/ format_name[j] = "."}
    IN  IF cuts = {} THEN [matched |-> FALSE, format_version |-> None]
        ELSE [matched |-> TRUE,
              format_version |->
                  SubSeq(format_name, (CHOOSE k \in cuts : TRUE) + 1, Len(format_name))]

\* FORMAT_VERSION.match(format_name) and its group format_version: letters,
\* then digits and dots up to the end
FORMAT_VERSION(format_name) ==
    LET cuts == {k \in 1..(Len(format_name) - 1) :
                    /\ \A j \in 1..k : IsLetter(format_name[j])
                    /\ \A j \in (k + 1)..Len(format_name) :
                            IsDigit(format_name[j]) \/ format_name[j] = "."}
    IN  IF cuts = {} THEN [matched |-> FALSE, format_version |-> None]
        ELSE [matched |-> TRUE,
              format_version |->
                  SubSeq(format_name, (CHOOSE k \in cuts : TRUE) + 1, Len(format_name))]

(***************************************************************************)
(* SoS_Step                                                                *)
(***************************************************************************)
\* None as the key of add_assignment and add_directive (no name is empty)
NoKey == ""

\* SoS_Step.__init__; last_line is "None", "=", ":" or "!"
SoS_Step(names, is_global, is_parameters) ==
    [names |-> names, options |-> <<>>, comment |-> <<>>,
     parameters |-> <<>>, assignments |-> <<>>, directives |-> <<>>, statements |-> <<>>,
     is_global |-> is_global, is_parameters |-> is_parameters, last_line |-> "None"]

empty(step) == step.last_line = "None"

\* x[-1][1] += value for a list x of [key, value, ...] items
ExtendLast(items, value) ==
    [items EXCEPT ![Len(items)] = [@ EXCEPT ![2] = @ \o <<value>>]]

add_comment(step, line) == [step EXCEPT !.comment = @ \o <<line>>]

add_assignment(step, key, value) ==
    IF key = NoKey
    THEN IF step.is_parameters
         THEN [step EXCEPT !.parameters = ExtendLast(@, value)]
         ELSE [step EXCEPT !.assignments = ExtendLast(@, value)]
    ELSE IF step.is_parameters
         THEN [step EXCEPT !.parameters = Append(@, <<key, <<value>>, step.comment>>),
                           !.comment = <<>>]
         ELSE [step EXCEPT !.assignments = Append(@, <<key, <<value>>>>),
                           !.last_line = "="]

\* add_directive with every directive line committed to the statements
add_directive_as_statement(step, key, value) ==
    [step EXCEPT !.statements = Append(@, value), !.last_line = "!"]

add_directive(step, key, value) ==
    IF key = NoKey
    THEN [step EXCEPT !.directives = ExtendLast(@, value)]
    ELSE [step EXCEPT !.directives = Append(@, <<key, <<value>>>>),
                      !.last_line = ":"]

add_statement(step, line) ==
    [step EXCEPT !.statements = Append(@, line), !.last_line = "!"]

extend(step, line) ==
    IF step.last_line = ":" THEN add_directive(step, NoKey, line)
    ELSE IF step.last_line = "=" THEN add_assignment(step, NoKey, line)
    ELSE add_statement(step, line)

(***************************************************************************)
(* ExprStack                                                               *)
(***************************************************************************)
\* ExprStack.__init__ and clear; category is "None", "expression",
\* "directive" or "statements"
ExprStack == [category |-> "None", values |-> <<>>]

\* set raises ValueError on values that were not cleared
SetRaises(stack) == stack.values # <<>>

set(stack, expr, category) == [category |-> category, values |-> <<expr>>]

\* push raises RuntimeError when no category is set
PushRaises(stack) == stack.category = "None"

push(stack, value) == [stack EXCEPT !.values = Append(@, value)]

\* What Python's compile() makes of the strings of the model, read one after
\* the other: "complete" (a complete expression or block of statements),
\* "open" (after an opening bracket), "element" (after an element inside the
\* bracket) or "error" (no continuation can make it valid).
\* An expression: 1, 'f'
IsAtom(v) == v \in {"1", "'f'"}

\* a complete statement at column 0 that is also an expression: run()
IsCall(v) == v = "run()\n"

\* a section header read as Python: a list display, or a subscript after an
\* element
IsList(v) == v \in {l.text : l \in {h \in Lines : h.shape = "header"}}

Compile(state, category, v) ==
    IF state = "start"
    THEN IF category = "statements"
         THEN IF IsCall(v) \/ v = "x = 1\n" THEN "complete"
              ELSE IF v = "x = [\n" THEN "open"
              ELSE "error"
         ELSE IF IsAtom(v) THEN "complete"
              ELSE IF v = "[" THEN "open"
              ELSE "error"
    ELSE IF state = "complete"
    THEN IF category = "statements" /\ (IsCall(v) \/ v = "x = 1\n") THEN "complete"
         ELSE IF category = "statements" /\ v = "x = [\n" THEN "open"
         ELSE "error"
    ELSE IF state = "open"
    THEN IF IsCall(v) \/ IsList(v) THEN "element"
         ELSE IF v = "  ]\n" THEN "complete"
         ELSE "error"
    ELSE IF state = "element"
    THEN IF IsList(v) THEN "element"
         ELSE IF v = "  ]\n" THEN "complete"
         ELSE "error"
    ELSE "error"

RECURSIVE CompileAll(_, _)
CompileAll(category, values) ==
    IF values = <<>> THEN "start"
    ELSE Compile(CompileAll(category, SubSeq(values, 1, Len(values) - 1)),
                 category, values[Len(values)])

\* ExprStack.isValid: no values, or compile() accepts their concatenation
isValid(stack) ==
    \/ stack.values = <<>>
    \/ CompileAll(stack.category, stack.values) = "complete"

(***************************************************************************)
(* SoS_Workflow                                                            *)
(***************************************************************************)
\* '*' in name
HasWildcard(name) == \E j \in DOMAIN name : name[j] = "*"

\* the copies of one section that SoS_Workflow.__init__ appends to
\* self.sections, one for each of its names that has an index and either
\* contains '*' or is the workflow's name, renamed to (workflow_name, index)
RECURSIVE SelectNames(_, _, _)
SelectNames(workflow_name, section, names) ==
    IF names = <<>> THEN <<>>
    ELSE LET name == Head(names)[1]
             index == Head(names)[2]
         IN  (IF index # None /\ (HasWildcard(name) \/ name = workflow_name)
              THEN <<[section EXCEPT !.names = <<<<workflow_name, index>>>>]>>
              ELSE <<>>)
             \o SelectNames(workflow_name, section, Tail(names))

\* self.sections before the sort
RECURSIVE SelectSections(_, _)
SelectSections(workflow_name, secs) ==
    IF secs = <<>> THEN <<>>
    ELSE (IF Head(secs).is_global \/ Head(secs).is_parameters THEN <<>>
          ELSE SelectNames(workflow_name, Head(secs), Head(secs).names))
         \o SelectSections(workflow_name, Tail(secs))

\* self.auxillary_sections: one copy of a section for each of its names
\* without index
RECURSIVE AuxillarySections(_)
AuxillarySections(secs) ==
    IF secs = <<>> THEN <<>>
    ELSE (IF Head(secs).is_global \/ Head(secs).is_parameters THEN <<>>
          ELSE LET s == Head(secs)
                   n == Cardinality({j \in DOMAIN s.names : s.names[j][2] = None})
               IN  [j \in 1..n |-> s])
         \o AuxillarySections(Tail(secs))

\* self.global_section: a copy of the last global section, as a list of at
\* most one section (empty for None)
GlobalSection(secs) ==
    LET js == {j \in DOMAIN secs : secs[j].is_global} IN
    IF js = {} THEN <<>>
    ELSE <<secs[CHOOSE j \in js : \A h \in js : h <= j]>>

\* self.parameters_section, likewise
ParametersSection(secs) ==
    LET js == {j \in DOMAIN secs : ~secs[j].is_global /\ secs[j].is_parameters} IN
    IF js = {} THEN <<>>
    ELSE <<secs[CHOOSE j \in js : \A h \in js : h <= j]>>

\* the sort key with only the first character of the index converted
SortKeyFirstDigit(section) == int(<<section.names[1][2][1]>>)

\* the sort key of line 167: int(x.names[0][1])
SortKey(section) == int(section.names[1][2])

\* list.sort(key=...) is stable: x goes behind every element whose key is
\* not larger
RECURSIVE InsertSorted(_, _)
InsertSorted(sorted, x) ==
    IF sorted = <<>> THEN <<x>>
    ELSE IF SortKey(sorted[Len(sorted)]) <= SortKey(x) THEN Append(sorted, x)
    ELSE Append(InsertSorted(SubSeq(sorted, 1, Len(sorted) - 1), x), sorted[Len(sorted)])

RECURSIVE sort(_)
sort(list) ==
    IF list = <<>> THEN <<>>
    ELSE InsertSorted(sort(SubSeq(list, 1, Len(list) - 1)), list[Len(list)])

\* SoS_Workflow.__init__
SoS_Workflow(workflow_name, secs) ==
    [sections |-> sort(SelectSections(workflow_name, secs)),
     global_section |-> GlobalSection(secs),
     parameters_section |-> ParametersSection(secs),
     auxillary_sections |-> AuxillarySections(secs)]

\* section_steps of _read: the names of all sections
RECURSIVE section_steps(_)
section_steps(secs) ==
    IF secs = <<>> THEN <<>>
    ELSE Head(secs).names \o section_steps(Tail(secs))

\* workflow_names without the test for '*'
workflow_names_with_wildcards(secs) ==
    LET steps == section_steps(secs) IN
    {steps[j][1] : j \in {h \in DOMAIN steps : steps[h][2] # None}}

\* workflow_names of _read
workflow_names(secs) ==
    LET steps == section_steps(secs) IN
    {steps[j][1] : j \in {h \in DOMAIN steps :
                            steps[h][2] # None /\ ~HasWildcard(steps[h][1])}}

(***************************************************************************)
(* SoS_Script_Parser._read                                                 *)
(***************************************************************************)
\* the state at the start of _read, before the first line
ParseInit ==
    /\ script = <<>>
    /\ sections = <<>>
    /\ format_version = <<"1", ".", "0">>
    /\ workflow_descriptions = <<>>
    /\ comment_block = 1
    /\ stck = ExprStack
    /\ parsing_errors = [errors |-> <<>>, message |-> <<>>]
    /\ outcome = "reading"
    /\ workflows = <<>>

\* ParsingError.append: the pair (lineno, line) goes to errors, msg to the
\* message text; line is the sequence of the strings it is joined from
ErrorAppend(pe, lineno, line, msg) ==
    [errors |-> Append(pe.errors, <<lineno, line>>),
     message |-> Append(pe.message, msg)]

\* the line number of the line being read (enumerate(fp, start=1))
lineno == Len(script) + 1

\* cursect: the last section; None when there is none
HasCursect == sections # <<>>

cursect == sections[Len(sections)]

WithCursect(step) == [sections EXCEPT ![Len(sections)] = step]

\* the for loop takes the next line of fp
Reading == outcome = "reading" /\ Len(script) < MaxLines

\* lines 362-391: a line that starts with '#'
ReadComment(line) ==
    /\ Reading
    /\ line.shape = "comment"
    /\ script' = Append(script, line)
    /\ IF ~HasCursect
       THEN /\ IF comment_block = 1 /\ line.format_line
               THEN LET mo == FORMAT_VERSION(line.format_name)
                        pe1 == IF ~StartsWithSOS(line.format_name)
                               THEN ErrorAppend(parsing_errors, lineno, <<line.text>>,
                                                "Unrecognized file format name")
                               ELSE parsing_errors
                    IN  /\ format_version' =
                              IF mo.matched THEN mo.format_version ELSE format_version
                        /\ parsing_errors' =
                              IF mo.matched THEN pe1
                              ELSE ErrorAppend(pe1, lineno, <<line.text>>,
                                               "Unrecognized file format version")
               ELSE UNCHANGED <<format_version, parsing_errors>>
            /\ workflow_descriptions' =
                  IF comment_block > 1
                  THEN [workflow_descriptions EXCEPT
                            ![Len(workflow_descriptions)] = Append(@, line.text)]
                  ELSE workflow_descriptions
            /\ UNCHANGED sections
       ELSE /\ sections' =
                  IF cursect.is_parameters \/ (comment_block = 1 /\ empty(cursect))
                  THEN WithCursect(add_comment(cursect, line.text))
                  ELSE sections
            /\ UNCHANGED <<format_version, parsing_errors, workflow_descriptions>>
    /\ UNCHANGED <<comment_block, stck, outcome, workflows>>
    /\ UNCHANGED <<dagvars, ctlvars, binder>>

\* lines 392-400: a blank line
ReadBlank(line) ==
    /\ Reading
    /\ line.shape = "blank"
    /\ script' = Append(script, line)
    /\ IF ~HasCursect
       THEN /\ comment_block' = comment_block + 1
            /\ workflow_descriptions' = Append(workflow_descriptions, <<>>)
       ELSE /\ comment_block' = IF cursect.comment # <<>> THEN comment_block + 1
                                ELSE comment_block
            /\ UNCHANGED workflow_descriptions
    /\ UNCHANGED <<sections, format_version, stck, parsing_errors, outcome, workflows>>
    /\ UNCHANGED <<dagvars, ctlvars, binder>>

\* the line is neither a comment nor blank
HasContent(line) == line.shape \notin {"comment", "blank"}

\* line 403: the test of an indented continuation
IsContinuation(line) ==
    HasContent(line) /\ IsIndented(line) /\ HasCursect /\ ~empty(cursect)

\* line 410: the test of a continuation of an unfinished item
IsUnfinished(line) ==
    HasContent(line) /\ ~IsContinuation(line) /\ ~isValid(stck)

\* lines 415 on: a new line, to be told apart by its shape
IsNewLine(line) ==
    HasContent(line) /\ ~IsContinuation(line) /\ ~IsUnfinished(line)

\* cursect.extend(line) followed by stck.push(line), which can raise
ExtendThenPush(line) ==
    /\ sections' = WithCursect(extend(cursect, line.text))
    /\ IF PushRaises(stck)
       THEN stck' = stck /\ outcome' = "RuntimeError"
       ELSE stck' = push(stck, line.text) /\ outcome' = outcome

\* lines 403-407: an indented line in a section that is not empty
ReadContinuation(line) ==
    /\ Reading
    /\ IsContinuation(line)
    /\ script' = Append(script, line)
    /\ ExtendThenPush(line)
    /\ UNCHANGED <<format_version, workflow_descriptions, comment_block,
                   parsing_errors, workflows>>
    /\ UNCHANGED <<dagvars, ctlvars, binder>>

\* lines 410-413: any line while the stack is not valid
ReadUnfinished(line) ==
    /\ Reading
    /\ IsUnfinished(line)
    /\ script' = Append(script, line)
    /\ stck' = push(stck, line.text)
    /\ sections' = WithCursect(extend(cursect, line.text))
    /\ UNCHANGED <<format_version, workflow_descriptions, comment_block,
                   parsing_errors, outcome, workflows>>
    /\ UNCHANGED <<dagvars, ctlvars, binder>>

\* the check of the previous item before a new one (lines 421-422, 457-458,
\* 483-484, 526-527); last is lineno - 1
CheckStack(pe, last) ==
    IF ~isValid(stck)
    THEN ErrorAppend(pe, last, stck.values,
                     IF stck.category = "expression" THEN "Invalid expression"
                     ELSE IF stck.category = "directive" THEN "Invalid directive"
                     ELSE "Invalid statements")
    ELSE pe

\* lines 418-448: a section header
ReadHeader(line) ==
    /\ Reading
    /\ IsNewLine(line)
    /\ line.shape = "header"
    /\ script' = Append(script, line)
    /\ LET tokens == split(line.section_name, ",")
           step_names == StepNames(tokens)
           n == Cardinality(InvalidNames(tokens))
           pe == CheckStack(parsing_errors, lineno - 1)
       IN  /\ parsing_errors' =
                 [errors |-> pe.errors \o [j \in 1..n |-> <<lineno - 1, <<line.text>>>>],
                  message |-> pe.message \o [j \in 1..n |-> "Invalid section name"]]
           /\ sections' = Append(sections,
                 SoS_Step(step_names, FALSE,
                          step_names # <<>> /\ step_names[1][1] = _PARAMETERS_SECTION_NAME))
    /\ stck' = ExprStack
    /\ UNCHANGED <<format_version, workflow_descriptions, comment_block, outcome, workflows>>
    /\ UNCHANGED <<dagvars, ctlvars, binder>>

\* '{} = {}\n'.format(var_name, var_value) for the assignments of the model
FormatAssignment(var_name, var_value) ==
    IF var_value = "1" THEN "x = 1\n" ELSE "x = [\n"

\* an assignment committed as an assignment item whatever came before it
ReadAssignmentAlwaysItem(line) ==
    /\ Reading
    /\ IsNewLine(line)
    /\ line.shape = "assignment"
    /\ script' = Append(script, line)
    /\ LET secs == IF ~HasCursect THEN <<SoS_Step(<<>>, TRUE, FALSE)>> ELSE sections
           cur == secs[Len(secs)]
       IN  /\ sections' = [secs EXCEPT ![Len(secs)] =
                               add_assignment(cur, line.var_name, line.var_value)]
           /\ stck' = set(ExprStack, line.var_value, "expression")
    /\ parsing_errors' = CheckStack(parsing_errors, lineno - 1)
    /\ UNCHANGED <<format_version, workflow_descriptions, comment_block, outcome, workflows>>
    /\ UNCHANGED <<dagvars, ctlvars, binder>>

\* lines 451-477: an assignment
ReadAssignment(line) ==
    /\ Reading
    /\ IsNewLine(line)
    /\ line.shape = "assignment"
    /\ script' = Append(script, line)
    /\ LET secs == IF ~HasCursect THEN <<SoS_Step(<<>>, TRUE, FALSE)>> ELSE sections
           cur == secs[Len(secs)]
           statement == FormatAssignment(line.var_name, line.var_value)
       IN  IF empty(cur) \/ cur.last_line = "="
           THEN /\ sections' = [secs EXCEPT ![Len(secs)] =
                                    add_assignment(cur, line.var_name, line.var_value)]
                /\ stck' = set(ExprStack, line.var_value, "expression")
           ELSE IF cur.last_line = ":"
           THEN /\ sections' = [secs EXCEPT ![Len(secs)] = add_statement(cur, statement)]
                /\ stck' = set(ExprStack, statement, "statements")
           ELSE /\ sections' = [secs EXCEPT ![Len(secs)] = extend(cur, statement)]
                /\ stck' = set(ExprStack, statement, "statements")
    /\ parsing_errors' = CheckStack(parsing_errors, lineno - 1)
    /\ UNCHANGED <<format_version, workflow_descriptions, comment_block, outcome, workflows>>
    /\ UNCHANGED <<dagvars, ctlvars, binder>>

\* lines 489-497: the directive is not allowed here; the message, or "" when
\* it is allowed
DirectiveError ==
    IF ~HasCursect THEN "Directive is not allowed out side of a SoS step"
    ELSE IF cursect.is_parameters THEN "Directive is not allowed in parameters section"
    ELSE IF ~empty(cursect) /\ cursect.last_line = "!"
    THEN "Directive should be be defined before step action"
    ELSE ""

\* lines 480-500: a directive
ReadDirective(line) ==
    /\ Reading
    /\ IsNewLine(line)
    /\ line.shape = "directive"
    /\ script' = Append(script, line)
    /\ IF DirectiveError # ""
       THEN /\ parsing_errors' = ErrorAppend(CheckStack(parsing_errors, lineno - 1), lineno,
                                             <<line.text>>, DirectiveError)
            /\ stck' = ExprStack
            /\ UNCHANGED sections
       ELSE /\ parsing_errors' = CheckStack(parsing_errors, lineno - 1)
            /\ sections' = WithCursect(
                  add_directive(cursect, line.directive_name, line.directive_value))
            /\ stck' = set(ExprStack, line.directive_value, "directive")
    /\ UNCHANGED <<format_version, workflow_descriptions, comment_block, outcome, workflows>>
    /\ UNCHANGED <<dagvars, ctlvars, binder>>

\* the test of lines 503-513 without the branch of the parameters section
StatementErrorNotInParameters ==
    IF ~HasCursect \/ cursect.is_global
    THEN "Only variable assignment is allowed before section definitions."
    ELSE ""

\* lines 503-513: the line is not allowed here; the message, or "" when it
\* is an action statement
StatementError ==
    IF ~HasCursect \/ cursect.is_global
    THEN "Only variable assignment is allowed before section definitions."
    ELSE IF cursect.is_parameters
    THEN "Action statement is not allowed in parameters section"
    ELSE ""

\* lines 503-523: any other line
ReadOther(line) ==
    /\ Reading
    /\ IsNewLine(line)
    /\ line.shape = "other"
    /\ script' = Append(script, line)
    /\ IF StatementError # ""
       THEN /\ parsing_errors' = ErrorAppend(parsing_errors, lineno, <<line.text>>,
                                             StatementError)
            /\ UNCHANGED <<sections, stck, outcome>>
       ELSE IF empty(cursect) \/ cursect.last_line # "!"
       THEN /\ sections' = WithCursect(add_statement(cursect, line.text))
            /\ stck' = set(ExprStack, line.text, "statements")
            /\ UNCHANGED <<parsing_errors, outcome>>
       ELSE /\ ExtendThenPush(line)
            /\ UNCHANGED parsing_errors
    /\ UNCHANGED <<format_version, workflow_descriptions, comment_block, workflows>>
    /\ UNCHANGED <<dagvars, ctlvars, binder>>

\* lines 524-538: fp is exhausted; the last item is checked, then the
\* aggregate is raised or the workflows are created
EndOfInput ==
    /\ outcome = "reading"
    /\ parsing_errors' = CheckStack(parsing_errors, Len(script) - 1)
    /\ IF parsing_errors'.errors # <<>>
       THEN outcome' = "ParsingError" /\ UNCHANGED workflows
       ELSE /\ outcome' = "parsed"
            /\ workflows' = [name \in workflow_names(sections) |->
                                SoS_Workflow(name, sections)]
    /\ UNCHANGED <<script, sections, format_version, workflow_descriptions,
                   comment_block, stck>>
    /\ UNCHANGED <<dagvars, ctlvars, binder>>

ReadLine ==
    \E line \in Lines :
        \/ ReadComment(line)
        \/ ReadBlank(line)
        \/ ReadContinuation(line)
        \/ ReadUnfinished(line)
        \/ ReadHeader(line)
        \/ ReadAssignment(line)
        \/ ReadDirective(line)
        \/ ReadOther(line)

ParseNext == ReadLine \/ EndOfInput

(***************************************************************************)
(* SoS_Script (sos_script.py, lines 549-605): the parameters of a script   *)
(* and the command line.  A default expression is the source text of an    *)
(* expression, a record with its syntax tree; a value has the same shape   *)
(* as the literal that denotes it.                                         *)
(***************************************************************************)
\* number of items of a parameters section
MaxParams == 2

IntValue(n) == [t |-> "int", n |-> n]

StrValue(str) == [t |-> "str", s |-> str]

ListValue(items) == [t |-> "list", items |-> items]

NameExpr(id) == [t |-> "name", id |-> id]

AddExpr(l, r) == [t |-> "add", l |-> l, r |-> r]

\* a string holding the source of expression e (items[2] before it is evaluated)
Source(e) == [t |-> "source", expr |-> e]

NameError == [t |-> "NameError"]

TypeError == [t |-> "TypeError"]

IsException(v) == v.t \in {"NameError", "TypeError"}

\* eval(source) with the names of symbols in scope: a value or the exception raised
RECURSIVE eval(_, _)
eval(e, symbols) ==
    IF e.t = "name"
    THEN IF e.id \in DOMAIN symbols THEN symbols[e.id] ELSE NameError
    ELSE IF e.t = "add"
    THEN LET l == eval(e.l, symbols)
             r == eval(e.r, symbols)
         IN  IF IsException(l) THEN l
             ELSE IF IsException(r) THEN r
             ELSE IF l.t = "int" /\ r.t = "int" THEN IntValue(l.n + r.n)
             ELSE TypeError
    ELSE e

\* the names eval() sees at lines 573 and 590: the globals of the module and
\* the locals of the method (self, script, args, parameters, items, ...);
\* no variable of the script is among them
MethodSymbols == <<>>

\* 101, 's', [1] and a+1
DefaultExprs ==
    { IntValue(101), StrValue("s"), ListValue(<<IntValue(1)>>),
      AddExpr(NameExpr(<<"a">>), IntValue(1)) }

ParameterNames == {<<"b">>, <<"c">>}

\* items of a parameters section: items[1] is the name, items[2] the source
\* of the default
ParameterItems == [var : ParameterNames, value : {Source(e) : e \in DefaultExprs}]

\* the scripts handed to SoS_Script: with or without a parameters section
BinderScripts ==
    {[has_parameters |-> FALSE, parameter_section |-> <<>>]}
    \cup {[has_parameters |-> TRUE, parameter_section |-> items] :
            items \in UNION {[1..n -> ParameterItems] : n \in 0..MaxParams}}

Flag(var) == <<"-", "-">> \o var

\* argument vectors: none, --b 1000, --b a, --c 1000, --x 1000
ArgVectors ==
    { <<>>,
      <<Flag(<<"b">>), <<"1", "0", "0", "0">>>>,
      <<Flag(<<"b">>), <<"a">>>>,
      <<Flag(<<"c">>), <<"1", "0", "0", "0">>>>,
      <<Flag(<<"x">>), <<"1", "0", "0", "0">>>> }

\* the result of a call: None returned or the exception raised, and the
\* items of the parameters section after it
BinderResult(kind, parameter_section) ==
    [kind |-> kind, parameter_section |-> parameter_section]

\* SoS_Script.parseCommandLineArgs(script, args), lines 564-590
parseCommandLineArgs(scr, args) ==
    IF ~scr.has_parameters
    THEN BinderResult("None", scr.parameter_section)
    ELSE IF \E k \in DOMAIN scr.parameter_section :
                IsException(eval(scr.parameter_section[k].value.expr, MethodSymbols))
    THEN BinderResult("RuntimeError", scr.parameter_section)
    \* line 578: the module does not import argparse
    ELSE BinderResult("NameError", scr.parameter_section)

\* SoS_Script.__init__(script_file, args), lines 553-562: line 554 names
\* SoS_ScriptParser, which the module does not define
SoS_Script(scr, args) == BinderResult("NameError", scr.parameter_section)

NoBinderCall ==
    [op |-> "none", script |-> [has_parameters |-> FALSE, parameter_section |-> <<>>],
     args |-> <<>>, kind |-> "None", parameter_section |-> <<>>]

BinderInit == binder = NoBinderCall

BinderCall(op, scr, args, r) ==
    /\ binder' = [op |-> op, script |-> scr, args |-> args,
                  kind |-> r.kind, parameter_section |-> r.parameter_section]
    /\ UNCHANGED <<dagvars, ctlvars, parsevars>>

\* SoS_Script(script_file, args)
NewSoS_Script ==
    \E scr \in BinderScripts, args \in ArgVectors :
        BinderCall("SoS_Script", scr, args, SoS_Script(scr, args))

\* parseCommandLineArgs(script, args) on a script whose sections are the
\* mapping the method reads
ParseCommandLineArgs ==
    \E scr \in BinderScripts, args \in ArgVectors :
        BinderCall("parseCommandLineArgs", scr, args, parseCommandLineArgs(scr, args))

BinderNext == NewSoS_Script \/ ParseCommandLineArgs

(***************************************************************************)
(* Specifications                                                          *)
(***************************************************************************)
Init == DagInit /\ CtlInit /\ ParseInit /\ BinderInit

\* the DAG and its driver
Next == DagNext

Spec == Init /\ [][Next]_vars

\* a workflow of up to MaxChain steps, built and run by concurrent drivers
ChainNext ==
    \/ AddChainStep
    \/ Build
    \/ FindExecutable
    \/ Start
    \/ Complete
    \/ Fail

SpecChain == Init /\ [][ChainNext]_vars

\* the sequential driver; its loop is one thread that keeps running
SpecSeq == Init /\ [][SeqNext]_vars /\ WF_vars(DriverLoop)

\* the controller and its client, the stores never failing
CtlNext ==
    \/ PollCycle
    \/ SendSigPush
    \/ SendSigReq
    \/ SendCtlPush
    \/ SendCtlReq
    \/ ClientRecv
    \/ KeyboardInterrupt

SpecCtl == Init /\ [][CtlNext]_vars

\* the controller and its client, the store operations failing at will
CtlFaultNext ==
    \/ PollCycleFaulty
    \/ SendSigPush
    \/ SendSigReq
    \/ SendCtlPush
    \/ SendCtlReq
    \/ ClientRecv
    \/ KeyboardInterruptFaulty

SpecCtlFault == Init /\ [][CtlFaultNext]_vars

\* the controller thread is scheduled: a pass of the loop that poll() can
\* return for is eventually made
SpecCtlLive == Init /\ [][CtlNext]_vars /\ WF_vars(PollCycle)

\* the controller reading the progress events of the workers
ProgressNext ==
    \/ PollCycle
    \/ SendProgress
    \/ Tick
    \/ SetVerbosity
    \/ KeyboardInterrupt

SpecProgress == Init /\ [][ProgressNext]_vars

\* the parser reading a script line by line
SpecParse == Init /\ [][ParseNext]_vars

\* SoS_Script applied to scripts and argument vectors
SpecBinder == Init /\ [][BinderNext]_vars

(***************************************************************************)
(* Properties of the DAG (specification Spec)                              *)
(***************************************************************************)
Status(i) == nodes[i].status

\* the unset nodes all of whose in-edge predecessors are completed
ReadyNodes ==
    {i \in Positions(nodes) :
        /\ Status(i) = "None"
        /\ \A u \in Positions(nodes) : <<u, i>> \in edges => Status(u) = "completed"}

JustReturned(op) == ret.op = op

\* C1: find_executable returns a node iff some unset node has all its in-edge
\* predecessors completed, and the node returned is the first such node in
\* insertion order.
C1_FindExecutableIffReady ==
    JustReturned("find_executable") =>
        /\ (ret.kind = "node") <=> (ReadyNodes # {})
        /\ ret.kind = "node" =>
              /\ ret.node \in ReadyNodes
              /\ \A j \in ReadyNodes : ret.node <= j

\* two nodes are ready and the first one was returned
C1_Witness ==
    /\ JustReturned("find_executable")
    /\ ret.kind = "node"
    /\ Cardinality(ReadyNodes) = 2
    /\ ret.node = 1

\* C2: for every edge u -> v, when find_executable returns v the node u is
\* completed; v is never returned while u is unset, running or failed.
C2_PredecessorsCompleted ==
    (JustReturned("find_executable") /\ ret.kind = "node") =>
        \A u \in Positions(nodes) :
            <<u, ret.node>> \in edges => Status(u) = "completed"

\* a node with an in-edge is returned after its predecessor completed,
\* while the driver has had another node running
C2_Witness ==
    /\ JustReturned("find_executable")
    /\ ret.kind = "node"
    /\ \E u \in Positions(nodes) : <<u, ret.node>> \in edges /\ Status(u) = "completed"

\* C3: right after build(), for all distinct nodes a, b: depends_on(a, b) on the
\* nodes' fields implies the edge b -> a.
C3_BuildAddsEveryEdge ==
    JustReturned("build") =>
        \A a \in Positions(nodes), b \in Positions(nodes) :
            (a # b /\ depends_on(nodes[a], nodes[b])) => <<b, a>> \in edges

\* build() has run on two nodes of which the first depends on the second
C3_Witness ==
    /\ JustReturned("build")
    /\ Len(nodes) = 2
    /\ depends_on(nodes[1], nodes[2])
    /\ <<2, 1>> \in edges

\* the three rules of the specification, written on the fields
E1(self, other) ==
    /\ other.change_context
    /\ other.node_index # NoIndex
    /\ self.node_index # NoIndex
    /\ other.node_index < self.node_index

E2(self, other) ==
    /\ self.input_targets = Undetermined
    /\ other.node_index # NoIndex
    /\ self.node_index # NoIndex
    /\ other.node_index + 1 = self.node_index

E3(self, other) ==
    /\ other.output_targets # Undetermined
    /\ \/ /\ self.input_targets # Undetermined
          /\ self.input_targets.set \cap other.output_targets.set # {}
       \/ self.depends_targets \cap other.output_targets.set # {}

\* C4: depends_on(self, other) is true iff self is not completed and one of
\* (E1) context change, (E2) undetermined input after the immediately
\* preceding index, (E3) produce/consume holds.
C4_DependsOnRules ==
    \A a \in Positions(nodes), b \in Positions(nodes) :
        depends_on(nodes[a], nodes[b]) <=>
            /\ Status(a) # "completed"
            /\ E1(nodes[a], nodes[b]) \/ E2(nodes[a], nodes[b]) \/ E3(nodes[a], nodes[b])

\* a step with Undetermined inputs has an edge from the step of the preceding
\* index although neither E1 nor E3 relates them
C4_Witness ==
    /\ JustReturned("build")
    /\ \E a \in Positions(nodes), b \in Positions(nodes) :
          /\ E2(nodes[a], nodes[b])
          /\ ~E1(nodes[a], nodes[b])
          /\ ~E3(nodes[a], nodes[b])
          /\ <<b, a>> \in edges

\* a graph has a cycle iff some non-empty set of nodes has, for each of its
\* members, an edge into it from a member
Acyclic(es, V) ==
    \A S \in SUBSET V :
        S # {} => \E v \in S : \A u \in S : <<u, v>> \notin es

\* every produce/consume relation goes from a smaller index to a larger one
WellFormed ==
    \A a \in Positions(nodes), b \in Positions(nodes) :
        E3(nodes[a], nodes[b]) =>
            /\ nodes[a].node_index # NoIndex
            /\ nodes[b].node_index # NoIndex
            /\ nodes[b].node_index < nodes[a].node_index

\* C5 as stated: the graph build() produces is acyclic for every set of steps.
C5_AlwaysAcyclic ==
    JustReturned("build") => Acyclic(edges, Positions(nodes))

\* C5: the graph build() produces is acyclic when the declarations are
\* well-formed (every produce/consume relation goes from a step with a smaller
\* index to a step with a larger one); build() never adds a self-loop.
C5_AcyclicWhenWellFormed ==
    JustReturned("build") =>
        /\ \A i \in Positions(nodes) : <<i, i>> \notin edges
        /\ WellFormed => Acyclic(edges, Positions(nodes))

\* build() has run on two well-formed steps and added an edge
C5_Witness ==
    /\ JustReturned("build")
    /\ Len(nodes) = 2
    /\ WellFormed
    /\ \E a \in Positions(nodes), b \in Positions(nodes) : E3(nodes[a], nodes[b])
    /\ edges # {}

\* C6: when find_executable finds no ready node it returns None only if every
\* node is completed, raises RuntimeError if some node is not completed, and
\* the call changes neither the graph nor a status.
C6_NoneOnlyWhenAllCompleted ==
    [][ret'.op = "find_executable" =>
          /\ nodes' = nodes
          /\ edges' = edges
          /\ ret'.kind = "None" => \A i \in Positions(nodes) : Status(i) = "completed"
          /\ (ret'.kind = "RuntimeError") <=>
                /\ ReadyNodes = {}
                /\ \E i \in Positions(nodes) : Status(i) # "completed"]_vars

\* RuntimeError was raised with a failed node and a blocked unset node
C6_Witness ==
    /\ JustReturned("find_executable")
    /\ ret.kind = "RuntimeError"
    /\ \E i \in Positions(nodes) : Status(i) = "failed"
    /\ \E i \in Positions(nodes) : Status(i) = "None"

\* the targets declared as input or depends of some step
DeclaredDependent ==
    {t \in Targets : \E i \in Positions(nodes) :
        \/ ~nodes[i].input_targets.und /\ t \in nodes[i].input_targets.set
        \/ t \in nodes[i].depends_targets}

\* the targets declared as output of some step
DeclaredOutput ==
    {t \in Targets : \E i \in Positions(nodes) :
        ~nodes[i].output_targets.und /\ t \in nodes[i].output_targets.set}

\* C7: dangling() returns exactly the targets declared as input or depends of
\* some step, as output of no step, and that do not exist; the call leaves the
\* two indexes unchanged.
C7_DanglingExact ==
    [][ret'.op = "dangling" =>
          /\ ret'.files = {t \in DeclaredDependent : t \notin DeclaredOutput /\ t \notin ret'.exists}
          /\ all_dependent_files' = all_dependent_files
          /\ all_output_files' = all_output_files]_vars

\* a target that a step depends on, that no step produces and that is absent
C7_Witness ==
    /\ JustReturned("dangling")
    /\ ret.files # {}
    /\ \E i \in Positions(nodes) :
          nodes[i].input_targets.und /\ nodes[i].depends_targets \cap ret.files # {}

(***************************************************************************)
(* Properties of the controller (specifications SpecCtl, SpecCtlFault)     *)
(***************************************************************************)
\* no KeyboardInterrupt has been caught at line 204: every pass of the loop,
\* the last one included, has run to its end
Uninterrupted == ~ctl.interrupted

\* C8: for every request the controller reads on sig_req or ctl_req, whatever
\* its content, it writes exactly one reply before it reads the next request;
\* no request is left unanswered and none is answered twice (in passes that
\* no KeyboardInterrupt cuts short).
C8_OneReplyPerRequest ==
    Uninterrupted =>
        \A ch \in ReqChannels :
            /\ ch \in cycle.read => Len(cycle.sent[ch]) = 1
            /\ ~owed[ch]

\* C9: after a ("target", t, s) or ("step", key, substep, s) push has been
\* handled and no later push for the same key, a get request for that key
\* that is handled to its end (no KeyboardInterrupt) and without a store
\* failure is answered with s.
C9_GetReturnsLastPush ==
    LET msg == cycle.msg.sig_req IN
    (/\ Uninterrupted
     /\ "sig_req" \in cycle.read \ cycle.raised
     /\ IsGet(msg)
     /\ GetKey(msg) \in DOMAIN last_pushed)
        => cycle.sent.sig_req = <<PySig(last_pushed[GetKey(msg)])>>

\* a step signature pushed in an earlier poll cycle is returned by a get
C9_Witness ==
    /\ Uninterrupted
    /\ "sig_req" \in cycle.read \ cycle.raised
    /\ "sig_push" \notin cycle.read
    /\ cycle.msg.sig_req = <<"step", "get", "step_a", 0>>
    /\ cycle.sent.sig_req = <<PySig("sig2")>>

\* the sender's pushes and its request have arrived, the request is a get
\* for a key the sender has pushed, and the pass that read it ran to its end
AnswersGetOfPushedKey ==
    /\ Uninterrupted
    /\ "sig_req" \in cycle.read
    /\ IsGet(cycle.msg.sig_req)
    /\ GetKey(cycle.msg.sig_req) \in DOMAIN client.pushed

\* C10 as stated: after k >= 1 pushes and one request of one sender have
\* arrived, the reply reflects all k pushes, for every k.
C10_ReplyReflectsAllPushes ==
    AnswersGetOfPushedKey =>
        cycle.sent.sig_req = <<PySig(client.pushed[GetKey(cycle.msg.sig_req)])>>

\* C10: the controller reads one sig_push message per poll cycle, before the
\* sig_req message of that cycle; the reply reflects all k pushes of the sender
\* when at most one of them is still unread at the start of the poll cycle
\* that answers the request (always so for k = 1).
C10_ReplyReflectsPushesRead ==
    (AnswersGetOfPushedKey /\ cycle.unread_push <= 1) =>
        cycle.sent.sig_req = <<PySig(client.pushed[GetKey(cycle.msg.sig_req)])>>

\* a push and the get for its key are handled in the same poll cycle
C10_Witness ==
    /\ AnswersGetOfPushedKey
    /\ "sig_push" \in cycle.read
    /\ cycle.unread_push = 1
    /\ IsSigPush(cycle.msg.sig_push)
    /\ PushKey(cycle.msg.sig_push) = GetKey(cycle.msg.sig_req)
    /\ cycle.sent.sig_req = <<PySig(PushSig(cycle.msg.sig_push))>>

\* a None message read from ctl_push in the poll cycle that has just ended
ShutdownRead == "ctl_push" \in cycle.read /\ cycle.msg.ctl_push = NoneMsg

\* a None message has arrived on ctl_push and is not read yet
ShutdownSent == \E i \in 1..Len(chan.ctl_push) : chan.ctl_push[i] = NoneMsg

\* run() has left its loop and closed its four sockets
Terminated == ~ctl.running /\ closed = Channels

\* run() has left its loop and a KeyboardInterrupt raised in lines 207-210
\* has ended it before the fourth close()
CloseInterrupted == ~ctl.running /\ ctl.close_interrupted

\* C11: once the controller has read a None message on ctl_push it has left
\* its poll loop and closed all four sockets, and stays so; when the
\* controller thread is scheduled fairly, a None message sent on ctl_push
\* leads to the terminated state with all four channels closed.  The one
\* exception is a KeyboardInterrupt raised while the sockets are being
\* closed: the loop is left all the same and run() ends by raising.
C11_ShutdownTerminates ==
    /\ [](ShutdownRead => Terminated \/ CloseInterrupted)
    /\ [][Terminated => Terminated']_vars
    /\ (ShutdownSent ~> (Terminated \/ CloseInterrupted))

\* the shutdown message was read in a cycle that also read a push, and the
\* controller has terminated with a request still unread
C11_Witness ==
    /\ Uninterrupted
    /\ ShutdownRead
    /\ Terminated
    /\ "sig_push" \in cycle.read
    /\ chan.ctl_req # <<>>

\* the sig_req request read in the poll cycle that has just ended failed,
\* in a pass that ran to its end
SigReqFailed ==
    /\ Uninterrupted
    /\ "sig_req" \in cycle.read
    /\ "sig_req" \in cycle.raised

\* C12: whenever the handling of a sig_req request fails (the store
\* operation raises, or the kind is not workflow, target or step), the
\* controller replies None, exactly once, to that request, and keeps running
\* (it stops only for a None on ctl_push read in the same pass): no socket is
\* closed and the sig_req socket can receive the next request.  A pass that
\* a KeyboardInterrupt cuts short is not one in which a request is handled.
C12_FailedRequestRepliesNone ==
    SigReqFailed =>
        /\ cycle.sent.sig_req = <<PyNone>>
        /\ ~owed.sig_req
        /\ ShutdownRead \/ (ctl.running /\ closed = {})

\* a get request that was not the client's first message failed in the
\* store, None is the reply the client will receive, and the controller runs on
C12_Witness ==
    /\ SigReqFailed
    /\ IsGet(cycle.msg.sig_req)
    /\ cycle.sent.sig_req = <<PyNone>>
    /\ ctl.running
    /\ reply.sig_req = <<PyNone>>
    /\ client.nsent >= 2

(***************************************************************************)
(* Properties of the parser (specification SpecParse)                      *)
(***************************************************************************)
\* the (name, index) pairs of all sections
NamePairs ==
    {sections[j].names[h] : <<j, h>> \in
        {<<j, h>> \in (DOMAIN sections) \X (1..MaxLines) : h \in DOMAIN sections[j].names}}

\* the step that has just been taken read a header line and opened a section
HeaderRead ==
    /\ Len(script') = Len(script) + 1
    /\ script'[Len(script')].shape = "header"
    /\ Len(sections') = Len(sections) + 1

\* the names of the header line that has just been read
HeaderTokens == split(script'[Len(script')].section_name, ",")

\* C13: for every script that parses without error, the keys of workflows
\* are exactly the names of the (name, index) pairs of the sections whose
\* index is not None and whose name has no '*'; a bare index n in a header
\* gives the section the pair ("default", n), and "default" is a workflow
\* whenever a section has such a pair.
C13_WorkflowNames ==
    /\ [](outcome = "parsed" =>
            /\ DOMAIN workflows =
                  {p[1] : p \in {q \in NamePairs : q[2] # None /\ ~HasWildcard(q[1])}}
            /\ (\E q \in NamePairs : q[1] = DefaultName /\ q[2] # None)
                  => DefaultName \in DOMAIN workflows)
    /\ [][HeaderRead =>
            \A j \in DOMAIN HeaderTokens :
                (HeaderTokens[j] # <<>> /\ \A h \in DOMAIN HeaderTokens[j] :
                                                IsDigit(HeaderTokens[j][h]))
                => \E h \in DOMAIN sections'[Len(sections')].names :
                        sections'[Len(sections')].names[h] = <<DefaultName, HeaderTokens[j]>>
         ]_vars

\* a script with a bare-index section, a named section, a wildcard section
\* and an un-indexed name has parsed: its workflows are default and ab
C13_Witness ==
    /\ outcome = "parsed"
    /\ DOMAIN workflows = {DefaultName, <<"a", "b">>}
    /\ \E q \in NamePairs : HasWildcard(q[1]) /\ q[2] # None
    /\ \E q \in NamePairs : q[2] = None

\* C14 as stated: whatever the input, the parse failures are recorded and
\* the parser reads on, so that _read ends in one of two ways only, after
\* the last line: it raises the aggregate ParsingError, if and only if at
\* least one failure was recorded, and then no workflows exist; or it
\* returns with the workflows.
C14_ErrorsRaisedAtEnd ==
    /\ outcome \in {"reading", "parsed", "ParsingError"}
    /\ outcome = "parsed" => parsing_errors.errors = <<>>
    /\ outcome = "ParsingError" => parsing_errors.errors # <<>> /\ workflows = <<>>

\* the line that the step just taken has read
LineRead == script'[Len(script')]

\* the step just taken read a line that DIRECTIVE matches and that is
\* neither an indented continuation nor the continuation of an unfinished
\* item
DirectiveRead ==
    /\ Len(script') = Len(script) + 1
    /\ LineRead.shape = "directive"
    /\ IsNewLine(LineRead)

\* C15: a directive line (one the parser takes for a directive: at column 0,
\* no item unfinished) is a parse error and leaves the sections, so the
\* directive list, unchanged when there is no current section, when the
\* current section is the parameters section, or when the current section
\* has a statement already; in every other case it is appended to the
\* directives of the current section as a new (name, value) item, and no
\* error is recorded.
C15_DirectiveAllowedOrError ==
    [][DirectiveRead =>
          IF \/ sections = <<>>
             \/ sections[Len(sections)].is_parameters
             \/ sections[Len(sections)].statements # <<>>
          THEN /\ sections' = sections
               /\ parsing_errors'.errors =
                     Append(parsing_errors.errors, <<Len(script'), <<LineRead.text>>>>)
          ELSE /\ Len(sections') = Len(sections)
               /\ \A j \in 1..(Len(sections) - 1) : sections'[j] = sections[j]
               /\ sections'[Len(sections)].directives =
                     Append(sections[Len(sections)].directives,
                            <<LineRead.directive_name, <<LineRead.directive_value>>>>)
               /\ parsing_errors' = parsing_errors
     ]_vars

\* a directive was committed to a section, and a second one, after a
\* statement, was recorded as an error and not committed
C15_Witness ==
    /\ sections # <<>>
    /\ Len(sections[Len(sections)].directives) = 1
    /\ Len(sections[Len(sections)].statements) = 1
    /\ Len(script) = 4
    /\ script[4].shape = "directive"
    /\ parsing_errors.errors = <<<<4, <<script[4].text>>>>>>

\* C16 as stated: the global section never has a directive; a directive
\* line before any section header is not committed to it, whether or not
\* global assignments precede it.
C16_NoDirectiveInGlobalSection ==
    \A j \in DOMAIN sections : sections[j].is_global => sections[j].directives = <<>>

\* the integer indexes of the sections of a workflow, in order
IndexesOf(wf) == [k \in DOMAIN wf.sections |-> int(wf.sections[k].names[1][2])]

\* C17 as stated: no workflow is produced that contains two sections with
\* the same integer index; such a script is rejected.
C17_NoTiesInWorkflow ==
    outcome = "parsed" =>
        \A W \in DOMAIN workflows :
            \A k, l \in DOMAIN workflows[W].sections :
                k # l => IndexesOf(workflows[W])[k] # IndexesOf(workflows[W])[l]

\* a name pattern matches a name, '*' standing for any characters
RECURSIVE GlobMatch(_, _)
GlobMatch(pattern, name) ==
    IF pattern = <<>> THEN name = <<>>
    ELSE IF Head(pattern) = "*"
    THEN \E k \in 0..Len(name) : GlobMatch(Tail(pattern), SubSeq(name, k + 1, Len(name)))
    ELSE name # <<>> /\ Head(name) = Head(pattern) /\ GlobMatch(Tail(pattern), Tail(name))

\* the (section, name) positions whose name has an index and is W or a
\* pattern that matches W
MatchingNames(W) ==
    {<<j, h>> \in (DOMAIN sections) \X (1..MaxLines) :
        /\ ~sections[j].is_global
        /\ ~sections[j].is_parameters
        /\ h \in DOMAIN sections[j].names
        /\ sections[j].names[h][2] # None
        /\ \/ sections[j].names[h][1] = W
           \/ /\ HasWildcard(sections[j].names[h][1])
              /\ GlobMatch(sections[j].names[h][1], W)}

\* C18 as stated: the indexed sections of workflow W are named [(W, i)], and
\* a section with a wildcard name is among them only if its pattern matches
\* W, so that W has one section for each matching name.
C18_WildcardOnlyIfMatches ==
    outcome = "parsed" =>
        \A W \in DOMAIN workflows :
            /\ \A k \in DOMAIN workflows[W].sections :
                    /\ Len(workflows[W].sections[k].names) = 1
                    /\ workflows[W].sections[k].names[1][1] = W
            /\ Len(workflows[W].sections) = Cardinality(MatchingNames(W))

\* the orderings of 1..n
Orderings(n) == {f \in [1..n -> 1..n] : \A i, j \in 1..n : i # j => f[i] # f[j]}

\* out is src in ascending order of the integer index, sections of equal
\* index in the order of src
StablySorted(src, out) ==
    /\ Len(out) = Len(src)
    /\ \E f \in Orderings(Len(src)) :
          /\ \A k \in DOMAIN out : out[k] = src[f[k]]
          /\ \A k, l \in DOMAIN out :
                k < l => \/ int(out[k].names[1][2]) < int(out[l].names[1][2])
                         \/ /\ int(out[k].names[1][2]) = int(out[l].names[1][2])
                            /\ f[k] < f[l]

\* C19: in every workflow the indexed sections are in ascending order of the
\* integer value of their index (2 before 10), and sections of equal index
\* are in source order.
C19_SortedByIntegerIndex ==
    outcome = "parsed" =>
        \A W \in DOMAIN workflows :
            StablySorted(SelectSections(W, sections), workflows[W].sections)

\* a workflow of three sections, in the source with index 10 first, then
\* index 2 with a statement, then index 2 without
C19_Witness ==
    /\ outcome = "parsed"
    /\ \E W \in DOMAIN workflows :
          LET src == SelectSections(W, sections)
              out == workflows[W].sections
          IN  /\ Len(out) = 3
              /\ IndexesOf(workflows[W]) = <<2, 2, 10>>
              /\ src[2].statements # <<>>
              /\ src[3].statements = <<>>
              /\ out = <<src[2], src[3], src[1]>>

\* the script has a #fileformat line, in the first comment block and before
\* any section, whose name does not start with SOS or is not letters
\* followed by digits and dots only
BadFormatHeader ==
    \E j \in DOMAIN script :
        /\ script[j].shape = "comment"
        /\ script[j].format_line
        /\ \A h \in 1..(j - 1) : script[h].shape = "comment"
        /\ \/ ~StartsWithSOS(script[j].format_name)
           \/ ~FORMAT_VERSION(script[j].format_name).matched

\* C20 as stated: with such a header the parse fails with ParsingError; with
\* the header #fileformat=SOS1.1 first, a script that parses has
\* format_version "1.1"; and with no #fileformat line it has "1.0".
C20_FormatHeader ==
    /\ (outcome # "reading" /\ BadFormatHeader) => outcome = "ParsingError"
    /\ (outcome = "parsed" /\ script # <<>> /\ script[1].text = "#fileformat=SOS1.1\n")
            => format_version = <<"1", ".", "1">>
    /\ (\A j \in DOMAIN script : ~(script[j].shape = "comment" /\ script[j].format_line))
            => format_version = <<"1", ".", "0">>

(***************************************************************************)
(* C21: the version of the format header                                   *)
(***************************************************************************)
\* line j of the script is the header #fileformat=SOS, with no version, in
\* the first comment block and before any section
BareSOSHeader(j) ==
    /\ script[j].text = "#fileformat=SOS\n"
    /\ \A h \in 1..(j - 1) : script[h].shape = "comment"

\* an error of line j is recorded in parsing_errors
ErrorAtLine(j) == \E i \in DOMAIN parsing_errors.errors : parsing_errors.errors[i][1] = j

\* the script has one #fileformat line at most
OneFormatLine ==
    Cardinality({j \in DOMAIN script :
                    script[j].shape = "comment" /\ script[j].format_line}) <= 1

\* C21 as stated: the header #fileformat=SOS, with no version after the
\* token, is accepted without a parse error and leaves format_version at
\* its default "1.0".
C21_VersionOptional ==
    \A j \in DOMAIN script :
        BareSOSHeader(j) =>
            /\ ~ErrorAtLine(j)
            /\ OneFormatLine => format_version = <<"1", ".", "0">>

\* C21 amended: the version is required.  The header #fileformat=SOS with no
\* version records the error "Unrecognized file format version" for its line,
\* so the script is never parsed: reading ends with ParsingError, or before the
\* end with the RuntimeError of ExprStack.push; format_version stays at its
\* default "1.0".
C21_VersionRequired ==
    \A j \in DOMAIN script :
        BareSOSHeader(j) =>
            /\ \E i \in DOMAIN parsing_errors.errors :
                  /\ parsing_errors.errors[i] = <<j, <<script[j].text>>>>
                  /\ parsing_errors.message[i] = "Unrecognized file format version"
            /\ outcome \in {"reading", "ParsingError", "RuntimeError"}
            /\ outcome = "RuntimeError" => stck.category = "None"
            /\ OneFormatLine => format_version = <<"1", ".", "0">>

C21_Witness ==
    /\ outcome = "ParsingError"
    /\ Len(script) >= 3
    /\ BareSOSHeader(1)
    /\ OneFormatLine
    /\ Len(sections) = 1
    /\ sections[1].statements # <<>>
    /\ Len(parsing_errors.errors) = 1

(***************************************************************************)
(* C22: binding the command line to the parameters (SpecBinder)            *)
(***************************************************************************)
\* the globals of the script of the example: a = 100
ScriptGlobals == [id \in {<<"a">>} |-> IntValue(100)]

\* the argument vector has --var followed by a token
NamedIn(args, var) == \E i \in 1..(Len(args) - 1) : args[i] = Flag(var)

TokenOf(args, var) == args[(CHOOSE i \in 1..(Len(args) - 1) : args[i] = Flag(var)) + 1]

AllDigits(token) == token # <<>> /\ \A j \in DOMAIN token : IsDigit(token[j])

\* C22 as stated: after a call with a script that has a parameters section,
\* every parameter named in the argument vector (integer default, integer
\* token) has the parsed integer, and every parameter not named has its
\* default evaluated with the globals of the script (a = 100, b = a+1:
\* --b 1000 gives 1000, no argument gives 101).
C22_ParametersBound ==
    (binder.op # "none" /\ binder.script.has_parameters) =>
        \A k \in DOMAIN binder.script.parameter_section :
            LET item == binder.script.parameter_section[k]
                default == eval(item.value.expr, ScriptGlobals)
                after == binder.parameter_section[k].value
            IN  /\ (/\ NamedIn(binder.args, item.var)
                    /\ default.t = "int"
                    /\ AllDigits(TokenOf(binder.args, item.var)))
                        => after = IntValue(int(TokenOf(binder.args, item.var)))
                /\ (~NamedIn(binder.args, item.var) /\ ~IsException(default))
                        => after = default

(***************************************************************************)
(* C23 - C27: the edges and the driver loop (specification Spec)           *)
(***************************************************************************)
\* the edges the nodes' current fields justify
JustifiedEdges ==
    {e \in Positions(nodes) \X Positions(nodes) :
        e[1] # e[2] /\ depends_on(nodes[e[2]], nodes[e[1]])}

\* C23 as stated: after build() the edge set is a pure function of the
\* nodes' current fields, { (b, a) : a # b and depends_on(a, b) }; an edge
\* that is no longer justified is not present after re-running build().
C23_EdgesPureFunction ==
    JustReturned("build") => edges = JustifiedEdges

\* every edge the current fields justify is present (build() has run since
\* the last step was added)
Built == JustifiedEdges \subseteq edges

\* the nodes of a smaller index than node i
PreviousSteps(i) ==
    {j \in Positions(nodes) :
        /\ nodes[j].node_index # NoIndex
        /\ nodes[i].node_index # NoIndex
        /\ nodes[j].node_index < nodes[i].node_index}

\* C24 as stated: on a built graph find_executable never returns a node whose
\* input_targets is Undetermined while a node with a smaller index is not
\* completed.
C24_UndeterminedAfterAllPrevious ==
    (/\ JustReturned("find_executable")
     /\ ret.kind = "node"
     /\ Built
     /\ nodes[ret.node].input_targets.und)
        => \A j \in PreviousSteps(ret.node) : Status(j) = "completed"

\* the edges between unset nodes
UnsetEdges == {e \in edges : Status(e[1]) = "None" /\ Status(e[2]) = "None"}

\* es has a path of k edges at most from u to v
RECURSIVE Reaches(_, _, _, _)
Reaches(es, u, v, k) ==
    /\ k > 0
    /\ \/ <<u, v>> \in es
       \/ \E e \in es : e[1] = u /\ Reaches(es, e[2], v, k - 1)

\* the nodes that lie on a cycle of the graph none of whose nodes has been
\* started: the cycles of the graph the driver loop starts from
CycleNodes == {i \in Positions(nodes) : Reaches(UnsetEdges, i, i, Len(nodes))}

\* C25 (specification SpecChain): find_executable never returns a node that
\* lies on a cycle of the built graph, the nodes of the cycle stay unset for
\* ever, and with a cycle in the graph the call never returns None: while a
\* node outside the cycle is ready it returns a node outside the cycle, and
\* once no node outside the cycle is ready it raises RuntimeError.
C25_CycleNeverScheduled ==
    /\ [](JustReturned("find_executable") =>
            /\ ret.kind = "node" => ret.node \notin CycleNodes
            /\ CycleNodes # {} => ret.kind # "None"
            /\ (CycleNodes # {} /\ \E i \in Positions(nodes) \ CycleNodes : i \in ReadyNodes)
                    => ret.kind = "node"
            /\ (CycleNodes # {} /\ \A i \in Positions(nodes) \ CycleNodes : i \notin ReadyNodes)
                    => ret.kind = "RuntimeError")
    /\ [][CycleNodes \subseteq CycleNodes']_vars

\* three steps, two of which wait for each other: the third, outside the
\* cycle, has been run to its end, and RuntimeError is raised while the two
\* of the cycle are unset
C25_Witness ==
    /\ JustReturned("find_executable")
    /\ ret.kind = "RuntimeError"
    /\ Len(nodes) = 3
    /\ Cardinality(CycleNodes) = 2
    /\ \A i \in Positions(nodes) \ CycleNodes : Status(i) = "completed"
    /\ \A i \in CycleNodes : Status(i) = "None"

AllCompleted == \A i \in Positions(nodes) : Status(i) = "completed"

\* C26 (specification SpecSeq): with an acyclic graph and the sequential
\* driver, every call of find_executable returns an unset node until all
\* nodes are completed and then returns None, no call raises RuntimeError,
\* a node that has been started is never unset (so never returned) again,
\* and the loop ends with None returned and all nodes completed: one node
\* per pass, as many passes as there are nodes.
C26_SequentialDriverTerminates ==
    /\ []((JustReturned("find_executable") /\ Acyclic(edges, Positions(nodes))) =>
            /\ ret.kind # "RuntimeError"
            /\ (ret.kind = "None") <=> AllCompleted
            /\ ret.kind = "node" => Status(ret.node) = "None")
    /\ [][\A i \in Positions(nodes) : Status(i) # "None" => nodes'[i].status # "None"]_vars
    /\ [][\A i \in Positions(nodes) :
            (Status(i) # "completed" /\ nodes'[i].status = "completed")
                => Cardinality({j \in Positions(nodes) : nodes'[j].status = "completed"})
                   = Cardinality({j \in Positions(nodes) : Status(j) = "completed"}) + 1]_vars
    /\ (JustReturned("find_executable") /\ Acyclic(edges, Positions(nodes)))
            ~> (JustReturned("find_executable") /\ ret.kind = "None" /\ AllCompleted)

\* the loop has ended on a built graph of two steps, the second after the first
C26_Witness ==
    /\ JustReturned("find_executable")
    /\ ret.kind = "None"
    /\ Len(nodes) = 2
    /\ AllCompleted
    /\ edges = {<<1, 2>>}

\* a call of find_executable changes no status, no edge and no index
FindExecutableReadOnly ==
    ret'.op = "find_executable" =>
        UNCHANGED <<nodes, edges, all_dependent_files, all_output_files>>

\* find_executable has just returned a node, and the step leaves that node unset
ReturnedStaysUnset ==
    /\ ret.op = "find_executable"
    /\ ret.kind = "node"
    /\ nodes'[ret.node].status = "None"

\* C27 as stated (specification SpecChain): find_executable is read-only, and
\* a node that was returned is returned by the next call as long as its own
\* status is unset.
C27_ReturnedUntilStatusSet ==
    /\ [][FindExecutableReadOnly]_vars
    /\ [][ReturnedStaysUnset => find_executable(nodes', edges').node = ret.node]_vars

\* an earlier node (in insertion order) than the returned one becomes ready
\* in the step because the status of a third node changes, the edges being
\* the same
EarlierBecomesReady ==
    /\ edges' = edges
    /\ \E j \in 1..(ret.node - 1) :
          /\ j \in ReadyNodes'
          /\ j \notin ReadyNodes
          /\ \E k \in Positions(nodes) \ {j, ret.node} : nodes'[k].status # nodes[k].status

\* the step adds an in-edge to the returned node from a node that is not
\* completed (and changes no status: the step is a call of build())
InEdgeAdded ==
    /\ \A k \in Positions(nodes) : nodes'[k].status = nodes[k].status
    /\ \E u \in Positions(nodes) :
          /\ <<u, ret.node>> \in edges' \ edges
          /\ nodes'[u].status # "completed"

\* C27 amended (specification SpecChain): find_executable is read-only; a
\* node that was returned is returned by the next call as long as no status
\* and no edge changes; a node whose status is set is not returned; and a
\* returned node that is still unset stops being returned only when an
\* earlier node becomes ready because the status of another node changed,
\* or when build() adds an in-edge to it from a node that is not completed.
C27_ReadOnlyFirstReady ==
    /\ [][FindExecutableReadOnly]_vars
    /\ [][(ret.op = "find_executable" /\ nodes' = nodes /\ edges' = edges)
            => find_executable(nodes', edges') = [kind |-> ret.kind, node |-> ret.node]]_vars
    /\ []((JustReturned("find_executable") /\ ret.kind = "node") => Status(ret.node) = "None")
    /\ [][(ReturnedStaysUnset /\ find_executable(nodes', edges').node # ret.node)
            => EarlierBecomesReady \/ InEdgeAdded]_vars

\* three steps, the second after the first: the third was returned while the
\* first is running and the second waits for it, so the end of the first
\* makes the second the node returned, the third still unset
C27_Witness ==
    /\ JustReturned("find_executable")
    /\ ret.kind = "node"
    /\ ret.node = 3
    /\ Len(nodes) = 3
    /\ Status(1) = "running"
    /\ Status(2) = "None"
    /\ Status(3) = "None"
    /\ <<1, 2>> \in edges
    /\ \A u \in Positions(nodes) \ {1} : <<u, 2>> \notin edges

(***************************************************************************)
(* C28 - C30: order, faults and shutdown in the controller                 *)
(***************************************************************************)
\* the sig_push messages the controller has read: those sent less those
\* still in the queue
ProcessedPushes == SubSeq(client.log, 1, Len(client.log) - Len(chan.sig_push))

\* the positions of the ("target", t, ...) messages of a sequence
TargetPushes(log, t) ==
    {j \in DOMAIN log : Kind(log[j]) = "target" /\ log[j][2] = t}

\* C28 (specification SpecCtl): the messages of sig_push are read in send
\* order (the queue is always the unread tail of what the client sent), and
\* for every target the store holds the signature of the last ("target", t,
\* s) message read: after ("target", t, s1) and ("target", t, s2) are both
\* processed it holds s2, whatever is sent on the other channels.  (A
\* KeyboardInterrupt may end run() between recv_pyobj and the store's set:
\* that message is read and not processed.)
C28_PushesInSendOrder ==
    /\ Len(chan.sig_push) <= Len(client.log)
    /\ chan.sig_push = SubSeq(client.log, Len(ProcessedPushes) + 1, Len(client.log))
    /\ Uninterrupted => \A t \in TargetKeys :
          LET js == TargetPushes(ProcessedPushes, t) IN
          IF js = {} THEN t \notin DOMAIN ctl.target_signatures
          ELSE /\ t \in DOMAIN ctl.target_signatures
               /\ ctl.target_signatures[t]
                    = PushSig(ProcessedPushes[CHOOSE j \in js : \A h \in js : h <= j])

\* s1 and then s2 were pushed for one target, with a message on another
\* channel, and both pushes are processed
C28_Witness ==
    /\ chan.sig_push = <<>>
    /\ client.nsent = 3
    /\ client.log = << <<"target", "foo", "sig1">>, <<"target", "foo", "sig2">> >>
    /\ ctl.target_signatures["foo"] = "sig2"
    /\ ctl.nprocs = 1

\* the sig_push and ctl_push messages read in the step whose handling is a
\* fault: the handler raises (a store write that fails, a message that is
\* no tuple of a kind, an unknown kind on ctl_push), or the kind is unknown
\* on sig_push, which is only logged (line 102)
FaultyRead ==
    {ch \in {"sig_push", "ctl_push"} \cap cycle'.read :
        \/ ch \in cycle'.raised
        \/ ch = "sig_push" /\ Kind(cycle'.msg.sig_push) \notin {"workflow", "target", "step"}}

\* the step is a pass of the loop, run to its end, that reads a faulty
\* fire-and-forget message
PushFaultCycle ==
    /\ ctl.running
    /\ ~ctl'.interrupted
    /\ FaultyRead # {}

\* the same pass without the read of the faulty messages
WithoutFaulty ==
    PollResult(ctl, chan, Readable \ FaultyRead, FALSE, "sig_req" \in cycle'.raised)

\* the queues as they would be had the faulty messages never been sent
NeverSent == [ch \in Channels |-> IF ch \in FaultyRead THEN Tail(chan[ch]) ELSE chan[ch]]

\* the pass of the loop over the queues without the faulty messages
AsIfNeverSent ==
    PollResult(ctl, NeverSent,
               {ch \in Channels : NeverSent[ch] # <<>> /\ (ch \in ReqChannels => ~owed[ch])},
               FALSE, "sig_req" \in cycle'.raised)

\* C29 as stated (specification SpecCtlFault): a fault while handling a
\* sig_push or ctl_push message does not end the controller, and the
\* requests of the pass are answered as if the faulty message had not been
\* sent, that is as by the pass over the queues without it.
C29_AsIfNeverSent ==
    [][PushFaultCycle =>
          /\ ctl'.running <=> ~("ctl_push" \in Readable /\ Head(chan.ctl_push) = NoneMsg)
          /\ reply' = [ch \in ReqChannels |-> reply[ch] \o AsIfNeverSent.sent[ch]]]_vars

\* C29 amended (specification SpecCtlFault): a pass that reads a faulty
\* sig_push or ctl_push message (unknown kind, or a store write that fails)
\* ends the controller only if it also read None on ctl_push, and it leaves
\* the stores, _nprocs, the replies and the other queues exactly as the same
\* pass without the read of the faulty message.  The faulty message is the
\* one message of its channel read in the pass: the messages behind it stay
\* queued, and the requests of the pass are answered without them.
C29_PushFaultOnlyLogged ==
    [][PushFaultCycle =>
          /\ ctl'.running <=> ~("ctl_push" \in Readable /\ Head(chan.ctl_push) = NoneMsg)
          /\ \E n \in 0..4 : ctl' = IF WithoutFaulty.ctl.running THEN WithoutFaulty.ctl
                                      ELSE LeaveLoop(WithoutFaulty.ctl, n)
          /\ reply' = [ch \in ReqChannels |-> reply[ch] \o WithoutFaulty.sent[ch]]
          /\ owed' = [ch \in ReqChannels |->
                         IF ch \in WithoutFaulty.read THEN WithoutFaulty.sent[ch] = <<>>
                         ELSE owed[ch]]
          /\ \A ch \in Channels :
                chan'[ch] = IF ch \in cycle'.read THEN Tail(chan[ch]) ELSE chan[ch]
          /\ cycle'.read = WithoutFaulty.read \cup FaultyRead]_vars

\* a message of unknown kind was read from sig_push with the signature of
\* foo queued behind it, and the request of the same pass for foo was
\* answered without that signature; the controller is still running
C29_Witness ==
    /\ ctl.running
    /\ Uninterrupted
    /\ "sig_push" \in cycle.read
    /\ cycle.msg.sig_push = <<"bogus">>
    /\ "sig_push" \notin cycle.raised
    /\ chan.sig_push # <<>>
    /\ Head(chan.sig_push) = <<"target", "foo", "sig2">>
    /\ "sig_req" \in cycle.read
    /\ cycle.msg.sig_req = <<"target", "get", "foo">>
    /\ cycle.sent.sig_req = <<PyNone>>

\* the step is the pass of the loop that ends it with the break of line 139
\* (and not with the one of line 205, after a KeyboardInterrupt)
ShutdownCycle == ctl.running /\ ~ctl'.running /\ ~ctl'.interrupted

\* the pass of the shutdown with ctl_push and ctl_req left out
BeforeBreak ==
    PollResult(ctl, chan, Readable \ {"ctl_push", "ctl_req"},
               "sig_push" \in cycle'.raised, "sig_req" \in cycle'.raised)

\* C30 (specification SpecCtlFault): in the pass that reads the shutdown
\* message the sig_push and sig_req messages that were ready are read and
\* handled (the request is answered as in any pass), a ctl_req request that
\* was ready is neither read nor answered, and after that pass no message is
\* read and no reply is sent.
C30_NothingAfterShutdown ==
    /\ [][ShutdownCycle =>
            /\ "ctl_push" \in Readable /\ Head(chan.ctl_push) = NoneMsg
            /\ cycle'.read = Readable \ {"ctl_req"}
            /\ \A ch \in Channels :
                  chan'[ch] = IF ch \in Readable \ {"ctl_req"} THEN Tail(chan[ch]) ELSE chan[ch]
            /\ \E n \in 0..4 : ctl' = LeaveLoop(BeforeBreak.ctl, n)
            /\ reply'.sig_req = reply.sig_req \o BeforeBreak.sent.sig_req
            /\ reply'.ctl_req = reply.ctl_req
            /\ owed'.ctl_req = owed.ctl_req]_vars
    /\ [][~ctl.running =>
            /\ UNCHANGED <<ctl, chan, owed>>
            /\ \A ch \in ReqChannels : reply'[ch] = reply[ch] \/ reply'[ch] = Tail(reply[ch])]_vars

\* the controller has stopped in a pass that handled a push; the request on
\* ctl_req that was ready in that pass is still in the queue and the client
\* waits for its reply
C30_Witness ==
    /\ ~ctl.running
    /\ Uninterrupted
    /\ cycle.read = {"sig_push", "ctl_push"}
    /\ ctl.target_signatures # <<>>
    /\ chan.ctl_req # <<>>
    /\ reply.ctl_req = <<>>
    /\ client.waiting = "ctl_req"

(***************************************************************************)
(* Properties of the progress display (specification SpecProgress)         *)
(***************************************************************************)
\* the pass that has just ended read a ('progress', event, ...) tuple
ProgressRead(event) ==
    /\ "ctl_push" \in cycle.read
    /\ Len(cycle.msg.ctl_push) >= 2
    /\ cycle.msg.ctl_push[1] = "progress"
    /\ cycle.msg.ctl_push[2] = event

\* C31: after any sequence of progress events, at any verbosity and with any
\* timing of the one-second throttle, 0 <= _subprogressbar_cnt <=
\* _subprogressbar_size (25), and at verbosity 1 the counter is 0 right after
\* a step_completed event has been processed (the handler was not cut short
\* by a KeyboardInterrupt)
C31_SubprogressbarBounded ==
    /\ ctl.subprogressbar_cnt \in 0..subprogressbar_size
    /\ (ProgressRead("step_completed") /\ ctl.verbosity = 1 /\ Uninterrupted)
           => ctl.subprogressbar_cnt = 0

\* the bar is full, and the next substep event after a second starts it again
C31_Witness ==
    /\ ProgressRead("substep_completed")
    /\ ctl.verbosity = 1
    /\ ctl.subprogressbar_cnt = 1
    /\ SumValues(ctl.completed) + SumValues(ctl.ignored) = subprogressbar_size + 1
    /\ SumValues(ctl.ignored) > 0

(***************************************************************************)
(* Properties of the parser's line rules (specification SpecParse)         *)
(***************************************************************************)
\* the step takes line from fp and reads it as a new line (rules 5 to 8)
NewLineRead(line, shape) ==
    /\ Reading
    /\ IsNewLine(line)
    /\ line.shape = shape
    /\ script' = Append(script, line)

\* the items of a section other than the lists named in changed are the same
SameItems(before, after, changed) ==
    /\ "parameters" \in changed \/ after.parameters = before.parameters
    /\ "assignments" \in changed \/ after.assignments = before.assignments
    /\ "directives" \in changed \/ after.directives = before.directives
    /\ "statements" \in changed \/ after.statements = before.statements

\* the line is committed as an assignment item: a parameter in the
\* parameters section, an assignment elsewhere
AsAssignmentItem(before, after, line) ==
    /\ IF before.is_parameters
       THEN /\ after.parameters =
                  Append(before.parameters,
                         <<line.var_name, <<line.var_value>>, before.comment>>)
            /\ SameItems(before, after, {"parameters"})
       ELSE /\ after.assignments =
                  Append(before.assignments, <<line.var_name, <<line.var_value>>>>)
            /\ SameItems(before, after, {"assignments"})

\* the line is committed as a line of statements
AsStatementLine(before, after, line) ==
    /\ after.statements =
          Append(before.statements, FormatAssignment(line.var_name, line.var_value))
    /\ after.last_line = "!"
    /\ SameItems(before, after, {"statements"})

\* with no section the global section is opened and takes the assignment
InGlobalSection(line) ==
    /\ Len(sections') = 1
    /\ sections'[1].is_global
    /\ ~sections'[1].is_parameters
    /\ AsAssignmentItem(SoS_Step(<<>>, TRUE, FALSE), sections'[1], line)

\* C32 as stated: an assignment line read as a new line is committed as the
\* first line of an action statement when the section's last committed item
\* was a directive, and as an assignment item (a parameter in the parameters
\* section) in every other case; with no section it opens the global
\* section and is committed there as an assignment.
C32_AssignmentUnlessAfterDirective ==
    [][\A line \in Lines : NewLineRead(line, "assignment") =>
          IF ~HasCursect THEN InGlobalSection(line)
          ELSE /\ Len(sections') = Len(sections)
               /\ IF cursect.last_line = ":"
                  THEN AsStatementLine(cursect, cursect', line)
                  ELSE AsAssignmentItem(cursect, cursect', line)]_vars

\* C32 amended: the assignment line is committed as an assignment item (a
\* parameter in the parameters section) when the section is empty or its last
\* committed item was an assignment; as the first line of an action statement
\* when the last item was a directive; and as a further line of the action
\* when the last item was a statement.  With no section it opens the global
\* section and is committed there as an assignment.
C32_AssignmentByLastItem ==
    [][\A line \in Lines : NewLineRead(line, "assignment") =>
          IF ~HasCursect THEN InGlobalSection(line)
          ELSE /\ Len(sections') = Len(sections)
               /\ IF cursect.last_line \in {":", "!"}
                  THEN AsStatementLine(cursect, cursect', line)
                  ELSE AsAssignmentItem(cursect, cursect', line)]_vars

\* an assignment line after a directive and another after a statement: both
\* are lines of the action, none is an assignment item
C32_Witness ==
    /\ Len(script) = 4
    /\ script[2].shape = "directive"
    /\ script[3].shape = "assignment"
    /\ script[4].shape = "assignment"
    /\ Len(sections) = 1
    /\ cursect.directives # <<>>
    /\ cursect.assignments = <<>>
    /\ cursect.statements = <<"x = 1\n", "x = 1\n">>

\* the step adds one entry to the errors, for line number n and the text line
OneErrorAt(n, text) ==
    parsing_errors'.errors = Append(parsing_errors.errors, <<n, <<text>>>>)

\* cursect is a normal section: neither the global nor the parameters section
InNormalSection == HasCursect /\ ~cursect.is_global /\ ~cursect.is_parameters

\* C33: a line that is neither comment, blank, continuation, section header,
\* assignment nor directive is committed as a free-form statement only inside
\* a normal section; with no section, in the global section and in the
\* parameters section it is a parse error and the sections are unchanged
C33_StatementOnlyInNormalSection ==
    [][\A line \in Lines : NewLineRead(line, "other") =>
          IF InNormalSection
          THEN /\ Len(sections') = Len(sections)
               /\ cursect'.statements = Append(cursect.statements, line.text)
               /\ SameItems(cursect, cursect', {"statements"})
               /\ parsing_errors' = parsing_errors
          ELSE /\ sections' = sections
               /\ OneErrorAt(lineno, line.text)]_vars

\* run() before any section, in the parameters section and in a normal
\* section: two errors, then one statement
C33_Witness ==
    /\ Len(script) = 5
    /\ script[1].text = "run()\n"
    /\ script[2].text = "[parameters]\n"
    /\ script[3].text = "run()\n"
    /\ script[4].text = "[2]\n"
    /\ script[5].text = "run()\n"
    /\ parsing_errors.errors = <<<<1, <<"run()\n">>>>, <<3, <<"run()\n">>>>>>
    /\ sections[1].statements = <<>>
    /\ sections[2].statements = <<"run()\n">>

\* the line before the one being read was a blank line inside a section
\* whose last item is an action statement
AfterBlankInAction ==
    /\ script # <<>>
    /\ script[Len(script)].shape = "blank"
    /\ InNormalSection
    /\ cursect.last_line = "!"

\* C34: a blank line inside a section ends the current action statement: the
\* expression stack no longer accumulates into it, so the next column-0
\* free-form line starts a new statement, judged on its own and not on the
\* concatenation with the lines before the blank line
C34_BlankLineEndsStatement ==
    [][\A line \in Lines :
          (/\ Reading
           /\ AfterBlankInAction
           /\ line.shape = "other"
           /\ ~IsIndented(line)
           /\ script' = Append(script, line))
          => stck' = set(ExprStack, line.text, "statements")]_vars

\* every line since the header that opened cursect is a comment line: the
\* line being read belongs to the leading comment block of the section
InLeadingBlock ==
    /\ empty(cursect)
    /\ \E j \in DOMAIN script :
          /\ script[j].shape = "header"
          /\ \A k \in (j + 1)..Len(script) : script[k].shape = "comment"

\* C35: for every non-parameters section, whatever precedes it in the file,
\* the comment lines between its header and its first item or first blank
\* line are kept as the section's comment, and comment lines after that
\* leading block are not added to it
C35_LeadingCommentKept ==
    [][\A line \in Lines :
          (/\ Reading
           /\ line.shape = "comment"
           /\ script' = Append(script, line)
           /\ HasCursect
           /\ ~cursect.is_parameters)
          => cursect'.comment = IF InLeadingBlock
                                THEN add_comment(cursect, line.text).comment
                                ELSE cursect.comment]_vars

\* the value of the last item of a list of [key, value, ...] items, as the
\* fragments it was put together from; <<>> when the list is empty
LastValue(items) == IF items = <<>> THEN <<>> ELSE items[Len(items)][2]

\* the value expression of the section's last assignment (its last parameter
\* in the parameters section) or of its last directive
MirroredValue(step, category) ==
    IF category = "directive" THEN LastValue(step.directives)
    ELSE IF step.is_parameters THEN LastValue(step.parameters)
    ELSE LastValue(step.assignments)

\* C36: whenever the expression stack is non-empty with category expression
\* or directive, the concatenation of its fragments equals the value of the
\* current section's last assignment, parameter or directive; a continuation
\* line of a parameter value in the parameters section is appended to that
\* parameter's value and never to the section's statements
C36_ContinuationMirrored ==
    /\ (stck.values # <<>> /\ stck.category \in {"expression", "directive"})
          => /\ HasCursect
             /\ MirroredValue(cursect, stck.category) = stck.values
    /\ \A k \in DOMAIN sections :
          sections[k].is_parameters => sections[k].statements = <<>>

\* the messages of the check of an item that was left unfinished: the only
\* failures that are found when a later line is read
UnfinishedItemMessages ==
    {"Invalid expression", "Invalid directive", "Invalid statements"}

\* C37: every entry recorded in the aggregate ParsingError for a failure
\* detected on physical line n (counted from 1) carries the line number n and
\* the text of that line, for every kind of failure (bad format header,
\* invalid section name, misplaced directive, misplaced statement)
C37_ErrorCarriesItsLine ==
    [][\A line \in Lines :
          (Reading /\ script' = Append(script, line)) =>
             \A j \in (Len(parsing_errors.errors) + 1)..Len(parsing_errors'.errors) :
                parsing_errors'.message[j] \notin UnfinishedItemMessages
                   => parsing_errors'.errors[j] = <<lineno, <<line.text>>>>]_vars

\* C38: for every sequence of input lines the parser never calls
\* ExprStack.push while the stack's category is unset and never calls
\* ExprStack.set while the stack is non-empty, so parsing never aborts midway
\* with the stack's RuntimeError or ValueError, also after a rejected line
\* has cleared the stack
C38_StackNeverRaises ==
    outcome \notin {"RuntimeError", "ValueError"}
====
